---- MODULE Spec2Model ----
(***************************************************************************)
(* The incremental matcher of scrolling_window_pattern_matcher             *)
(* (src/src/lib.rs): a chain of pattern elements, a cursor into the chain, *)
(* a counter of processed items and a registry of extractors, driven one   *)
(* item at a time by process_item; and the batch engine find_matches       *)
(* (src/src/lib_backup.rs), which scans a whole window for each pattern of *)
(* a table.                                                                *)
(***************************************************************************)
EXTENDS Integers, Sequences, FiniteSets, TLC

\* ------------------------------------------------------------------ bounds

\* Largest value an Exact element is built with; items range one further,
\* so there is always an item no Exact element matches.
MaxValue == 2

\* Longest pattern chain.
MaxPatterns == 3

\* Extractor ids are 1..MaxExtractorId.
MaxExtractorId == 1

\* process_item is called while total_processed is below this.
MaxTotal == 3

\* Longest vector handed to process_items.
MaxBatch == 2

\* The cap on total_processed in the feeding specification.
MaxFeed == 6

\* Longest chain of the batch specification.
MaxBatchChain == 2

\* Longest item sequence of the scanning specification.
MaxScan == 4

\* Default::default() builds the matcher with new(10).
DefaultWindowSize == 10

Items == 1..(MaxValue + 1)

PatternValues == 1..MaxValue

ExtractorIds == 1..MaxExtractorId

\* Option<ExtractorId>: 0 stands for None.
NoExtractor == 0

\* ------------------------------------------------------------ data model

\* ElementSettings::default()
DefaultSettings == [optional |-> FALSE, extractor_id |-> NoExtractor]

SettingsChoices == [optional : BOOLEAN, extractor_id : {NoExtractor} \cup ExtractorIds]

\* Option<u64>::None, for timeout_ms.
NoTimeout == -1

\* ElementSettings with all its fields written out; context is the
\* element's Option<Context> ("None" when absent).
ElementSettings(max_retries, optional, timeout_ms, ctx, extractor_id) ==
    [max_retries |-> max_retries, optional |-> optional, timeout_ms |-> timeout_ms,
     context |-> ctx, extractor_id |-> extractor_id]

\* PatternElement::exact(value): settings None.
exact(value) ==
    [kind |-> "Exact", value |-> value, min |-> 0, max |-> 0, function |-> "-",
     has_settings |-> FALSE, settings_val |-> DefaultSettings]

\* PatternElement::exact_with_settings(value, settings): settings Some.
exact_with_settings(value, s) ==
    [kind |-> "Exact", value |-> value, min |-> 0, max |-> 0, function |-> "-",
     has_settings |-> TRUE, settings_val |-> s]

\* PatternElement::range(min, max)
range(lo, hi) ==
    [kind |-> "Range", value |-> 0, min |-> lo, max |-> hi, function |-> "-",
     has_settings |-> FALSE, settings_val |-> DefaultSettings]

\* PatternElement::range_with_settings(min, max, settings)
range_with_settings(lo, hi, s) ==
    [kind |-> "Range", value |-> 0, min |-> lo, max |-> hi, function |-> "-",
     has_settings |-> TRUE, settings_val |-> s]

\* PatternElement::predicate(function); the boxed closure is named by what
\* it computes ("even": |x| *x % 2 == 0, "positive": |x| *x > 0).
predicate(f) ==
    [kind |-> "Predicate", value |-> 0, min |-> 0, max |-> 0, function |-> f,
     has_settings |-> FALSE, settings_val |-> DefaultSettings]

\* PatternElement::predicate_with_settings(function, settings)
predicate_with_settings(f, s) ==
    [kind |-> "Predicate", value |-> 0, min |-> 0, max |-> 0, function |-> f,
     has_settings |-> TRUE, settings_val |-> s]

\* The predicate closures the tests build elements from, and the closure
\* |_| false that Clone for PatternElement builds ("never").
call_function(f, item) ==
    CASE f = "even" -> item % 2 = 0
      [] f = "positive" -> item > 0
      [] f = "never" -> FALSE

\* Clone for PatternElement: Exact and Range are rebuilt from clones of
\* their fields; for a Predicate "functions cannot be cloned, so we create
\* a dummy predicate", Box::new(|_| false).
clone(e) ==
    CASE e.kind = "Exact" ->
            [kind |-> "Exact", value |-> e.value, min |-> 0, max |-> 0,
             function |-> "-", has_settings |-> e.has_settings,
             settings_val |-> e.settings_val]
      [] e.kind = "Predicate" ->
            [kind |-> "Predicate", value |-> 0, min |-> 0, max |-> 0,
             function |-> "never", has_settings |-> e.has_settings,
             settings_val |-> e.settings_val]
      [] e.kind = "Range" ->
            [kind |-> "Range", value |-> 0, min |-> e.min, max |-> e.max,
             function |-> "-", has_settings |-> e.has_settings,
             settings_val |-> e.settings_val]

\* PatternElement::settings(): the element's settings, or the default.
settings(e) == IF e.has_settings THEN e.settings_val ELSE DefaultSettings

\* PatternElement::matches(item)
matches(e, item) ==
    CASE e.kind = "Exact" -> item = e.value
      [] e.kind = "Predicate" -> call_function(e.function, item)
      [] e.kind = "Range" -> item >= e.min /\ item <= e.max

\* ------------------------------------------------------------ extractors

\* The closures registered as extractors, named by what they return:
\*   Continue           |_| Ok(ExtractorAction::Continue)
\*   ExtractDouble      |s| Ok(ExtractorAction::Extract(s.current_item * 2))
\*   Restart            |_| Ok(ExtractorAction::Restart)
\*   FailProcessing     |_| Err(ExtractorError::ProcessingFailed(..))
\*   FailConfiguration  |_| Err(ExtractorError::InvalidConfiguration(..))
\*   Panic              |_| panic!(..)
ExtractorKinds ==
    {"Continue", "ExtractDouble", "Restart", "FailProcessing", "FailConfiguration", "Panic"}

\* No entry under an id in the extractors HashMap.
NotRegistered == "NotRegistered"

\* MatchState built by process_item before its loop.
MatchState(item, position, total) ==
    [current_item |-> item, position |-> position, total_processed |-> total]

\* What a call of the extractor closure yields: Ok(action), Err(error), or
\* a panic that unwinds out of the closure.
call_extractor(kind, state) ==
    CASE kind = "Continue" ->
           [tag |-> "Ok", action |-> "Continue", data |-> 0, err |-> "-"]
      [] kind = "ExtractDouble" ->
           [tag |-> "Ok", action |-> "Extract", data |-> state.current_item * 2, err |-> "-"]
      [] kind = "Restart" ->
           [tag |-> "Ok", action |-> "Restart", data |-> 0, err |-> "-"]
      [] kind = "FailProcessing" ->
           [tag |-> "Err", action |-> "-", data |-> 0, err |-> "ProcessingFailed"]
      [] kind = "FailConfiguration" ->
           [tag |-> "Err", action |-> "-", data |-> 0, err |-> "InvalidConfiguration"]
      [] kind = "Panic" ->
           [tag |-> "Panic", action |-> "-", data |-> 0, err |-> "-"]

\* ------------------------------------------------- results of process_item

\* Ok(None)
OkNone == [tag |-> "Ok", some |-> FALSE, value |-> 0, err |-> "-", cause |-> "-"]

\* Ok(Some(v))
OkSome(v) == [tag |-> "Ok", some |-> TRUE, value |-> v, err |-> "-", cause |-> "-"]

\* Err(MatcherError::NoPatterns)
ErrNoPatterns ==
    [tag |-> "Err", some |-> FALSE, value |-> 0, err |-> "NoPatterns", cause |-> "-"]

\* Err(MatcherError::ExtractorFailed(e)), from map_err(MatcherError::ExtractorFailed)
ErrExtractorFailed(e) ==
    [tag |-> "Err", some |-> FALSE, value |-> 0, err |-> "ExtractorFailed", cause |-> e]

\* The call did not return: the extractor's panic unwound through it.
Unwound == [tag |-> "Panic", some |-> FALSE, value |-> 0, err |-> "-", cause |-> "-"]

\* ------------------------------------------------------------ the matcher

VARIABLES
    patterns,          \* Matcher.patterns: the chain of pattern elements
    current_position,  \* Matcher.current_position: the cursor into the chain
    total_processed,   \* Matcher.total_processed
    window_size,       \* Matcher.window_size
    extractors,        \* Matcher.extractors: id -> registered closure
    context,           \* Matcher.context
    call,              \* the most recent call of the matcher's API and what it returned
    log,               \* the process_item calls made since construction (kept by
                       \* the feeding specification), or the register_extractor
                       \* calls (kept by the registering specification)
    table,             \* the patterns the caller of the batch engine holds
    scan               \* the most recent batch scan and what it produced

vars == <<patterns, current_position, total_processed, window_size, extractors,
          context, call, log, table, scan>>

\* Option<Context>::None
NoContext == "None"

\* The matcher's fields process_item reads and writes.
Self == [patterns |-> patterns, extractors |-> extractors,
         current_position |-> current_position, total_processed |-> total_processed]

\* Mutant of advance: a completed pattern is reported but the cursor is
\* left past the end of the chain.
advance_keeps_cursor(pats, item, pos) ==
    [current_position |-> pos + 1,
     result |-> IF pos + 1 >= Len(pats) THEN OkSome(item) ELSE OkNone]

\* process_item, after a matched element whose extractor (if any) returned
\* Continue: advance the cursor; a cursor at the end of the chain is a
\* completed pattern.
advance(pats, item, pos) ==
    IF pos + 1 >= Len(pats)
    THEN [current_position |-> 0, result |-> OkSome(item)]
    ELSE [current_position |-> pos + 1, result |-> OkNone]

\* Mutant of dispatch: Extract hands back the item instead of the data.
dispatch_extract_item(out, pats, item, pos) ==
    CASE out.tag = "Panic" ->
           [current_position |-> pos, result |-> Unwound]
      [] out.tag = "Err" ->
           [current_position |-> pos, result |-> ErrExtractorFailed(out.err)]
      [] out.tag = "Ok" /\ out.action = "Extract" ->
           [current_position |-> 0, result |-> OkSome(item)]
      [] out.tag = "Ok" /\ out.action = "Restart" ->
           [current_position |-> 0, result |-> OkNone]
      [] out.tag = "Ok" /\ out.action = "Continue" ->
           advance(pats, item, pos)

\* Mutant of dispatch: Restart falls through to the normal advancement.
dispatch_restart_advances(out, pats, item, pos) ==
    CASE out.tag = "Panic" ->
           [current_position |-> pos, result |-> Unwound]
      [] out.tag = "Err" ->
           [current_position |-> pos, result |-> ErrExtractorFailed(out.err)]
      [] out.tag = "Ok" /\ out.action = "Extract" ->
           [current_position |-> 0, result |-> OkSome(out.data)]
      [] out.tag = "Ok" /\ out.action \in {"Restart", "Continue"} ->
           advance(pats, item, pos)

\* Mutant of dispatch: Continue returns without advancing the cursor.
dispatch_continue_stays(out, pats, item, pos) ==
    CASE out.tag = "Panic" ->
           [current_position |-> pos, result |-> Unwound]
      [] out.tag = "Err" ->
           [current_position |-> pos, result |-> ErrExtractorFailed(out.err)]
      [] out.tag = "Ok" /\ out.action = "Extract" ->
           [current_position |-> 0, result |-> OkSome(out.data)]
      [] out.tag = "Ok" /\ out.action = "Restart" ->
           [current_position |-> 0, result |-> OkNone]
      [] out.tag = "Ok" /\ out.action = "Continue" ->
           [current_position |-> pos, result |-> OkNone]

\* Mutant of dispatch: the extractor's error is dropped and the call
\* restarts the match.
dispatch_swallows_error(out, pats, item, pos) ==
    CASE out.tag = "Panic" ->
           [current_position |-> pos, result |-> Unwound]
      [] out.tag = "Err" ->
           [current_position |-> 0, result |-> OkNone]
      [] out.tag = "Ok" /\ out.action = "Extract" ->
           [current_position |-> 0, result |-> OkSome(out.data)]
      [] out.tag = "Ok" /\ out.action = "Restart" ->
           [current_position |-> 0, result |-> OkNone]
      [] out.tag = "Ok" /\ out.action = "Continue" ->
           advance(pats, item, pos)

\* Mutant of dispatch: Extract returns the data and leaves the cursor on the
\* element that matched.
dispatch_extract_keeps_cursor(out, pats, item, pos) ==
    CASE out.tag = "Panic" ->
           [current_position |-> pos, result |-> Unwound]
      [] out.tag = "Err" ->
           [current_position |-> pos, result |-> ErrExtractorFailed(out.err)]
      [] out.tag = "Ok" /\ out.action = "Extract" ->
           [current_position |-> pos, result |-> OkSome(out.data)]
      [] out.tag = "Ok" /\ out.action = "Restart" ->
           [current_position |-> 0, result |-> OkNone]
      [] out.tag = "Ok" /\ out.action = "Continue" ->
           advance(pats, item, pos)

\* process_item, the match on the extractor's outcome.
dispatch(out, pats, item, pos) ==
    CASE out.tag = "Panic" ->
           [current_position |-> pos, result |-> Unwound]
      [] out.tag = "Err" ->
           [current_position |-> pos, result |-> ErrExtractorFailed(out.err)]
      [] out.tag = "Ok" /\ out.action = "Extract" ->
           [current_position |-> 0, result |-> OkSome(out.data)]
      [] out.tag = "Ok" /\ out.action = "Restart" ->
           [current_position |-> 0, result |-> OkNone]
      [] out.tag = "Ok" /\ out.action = "Continue" ->
           advance(pats, item, pos)

\* process_item, the element at the cursor matched the item.
on_match(pats, exts, item, state, pos) ==
    LET id == settings(pats[pos + 1]).extractor_id
        registered == id # NoExtractor /\ exts[id] # NotRegistered
        d == IF registered
             THEN dispatch(call_extractor(exts[id], state), pats, item, pos)
             ELSE advance(pats, item, pos)
    IN  [current_position |-> d.current_position, result |-> d.result,
         invoked |-> IF registered THEN <<[id |-> id, element |-> pos, state |-> state]>>
                     ELSE <<>>]

\* process_item, the loop over the chain from the cursor: pos is
\* self.current_position (0-based), had_any_match the local flag.
RECURSIVE process_loop(_, _, _, _, _, _)

\* Mutant of process_loop: an optional element that does not match consumes
\* the item (the next element is tested against the next item).
process_loop_consuming(pats, exts, item, state, pos, had_any_match) ==
    IF pos >= Len(pats)
    THEN [current_position |-> 0,
          result |-> IF had_any_match THEN OkSome(item) ELSE OkNone,
          invoked |-> <<>>]
    ELSE IF matches(pats[pos + 1], item)
    THEN on_match(pats, exts, item, state, pos)
    ELSE IF settings(pats[pos + 1]).optional
    THEN [current_position |-> pos + 1, result |-> OkNone, invoked |-> <<>>]
    ELSE [current_position |-> 0, result |-> OkNone, invoked |-> <<>>]

\* Mutant of process_loop: after a mismatch on a non-optional element the
\* item is tested again against the first element of the chain.
process_loop_retest(pats, exts, item, state, pos, had_any_match) ==
    IF pos >= Len(pats)
    THEN [current_position |-> 0,
          result |-> IF had_any_match THEN OkSome(item) ELSE OkNone,
          invoked |-> <<>>]
    ELSE IF matches(pats[pos + 1], item)
    THEN on_match(pats, exts, item, state, pos)
    ELSE IF settings(pats[pos + 1]).optional
    THEN process_loop(pats, exts, item, state, pos + 1, had_any_match)
    ELSE IF pos > 0 /\ matches(pats[1], item)
    THEN on_match(pats, exts, item, state, 0)
    ELSE [current_position |-> 0, result |-> OkNone, invoked |-> <<>>]

\* Mutant of process_loop: a mismatch on a non-optional element leaves the
\* cursor where it is, waiting for an item that matches.
process_loop_keeps_cursor(pats, exts, item, state, pos, had_any_match) ==
    IF pos >= Len(pats)
    THEN [current_position |-> 0,
          result |-> IF had_any_match THEN OkSome(item) ELSE OkNone,
          invoked |-> <<>>]
    ELSE IF matches(pats[pos + 1], item)
    THEN on_match(pats, exts, item, state, pos)
    ELSE IF settings(pats[pos + 1]).optional
    THEN process_loop(pats, exts, item, state, pos + 1, had_any_match)
    ELSE [current_position |-> pos, result |-> OkNone, invoked |-> <<>>]

\* Mutant of process_loop: when the optional elements were skipped up to the
\* end of the chain, the cursor is left there.
process_loop_leaves_end(pats, exts, item, state, pos, had_any_match) ==
    IF pos >= Len(pats)
    THEN [current_position |-> pos,
          result |-> IF had_any_match THEN OkSome(item) ELSE OkNone,
          invoked |-> <<>>]
    ELSE IF matches(pats[pos + 1], item)
    THEN on_match(pats, exts, item, state, pos)
    ELSE IF settings(pats[pos + 1]).optional
    THEN process_loop(pats, exts, item, state, pos + 1, had_any_match)
    ELSE [current_position |-> 0, result |-> OkNone, invoked |-> <<>>]

\* Mutant of process_loop: skipping the optional elements up to the end of
\* the chain counts as completing it.
process_loop_completes_on_skip(pats, exts, item, state, pos, had_any_match) ==
    IF pos >= Len(pats)
    THEN [current_position |-> 0, result |-> OkSome(item), invoked |-> <<>>]
    ELSE IF matches(pats[pos + 1], item)
    THEN on_match(pats, exts, item, state, pos)
    ELSE IF settings(pats[pos + 1]).optional
    THEN process_loop(pats, exts, item, state, pos + 1, had_any_match)
    ELSE [current_position |-> 0, result |-> OkNone, invoked |-> <<>>]

\* Mutant of process_loop: the extractor of an optional element is run
\* when the element is skipped, too.
process_loop_hooks_skipped(pats, exts, item, state, pos, had_any_match) ==
    IF pos >= Len(pats)
    THEN [current_position |-> 0,
          result |-> IF had_any_match THEN OkSome(item) ELSE OkNone,
          invoked |-> <<>>]
    ELSE IF matches(pats[pos + 1], item)
    THEN on_match(pats, exts, item, state, pos)
    ELSE IF settings(pats[pos + 1]).optional
    THEN [process_loop(pats, exts, item, state, pos + 1, had_any_match)
             EXCEPT !.invoked = on_match(pats, exts, item, state, pos).invoked \o @]
    ELSE [current_position |-> 0, result |-> OkNone, invoked |-> <<>>]

\* Mutant of process_loop: an element with max_retries > 0 that does not
\* match keeps the cursor, to be tried again on the next item.
process_loop_retries(pats, exts, item, state, pos, had_any_match) ==
    IF pos >= Len(pats)
    THEN [current_position |-> 0,
          result |-> IF had_any_match THEN OkSome(item) ELSE OkNone,
          invoked |-> <<>>]
    ELSE IF matches(pats[pos + 1], item)
    THEN on_match(pats, exts, item, state, pos)
    ELSE IF settings(pats[pos + 1]).optional
    THEN process_loop(pats, exts, item, state, pos + 1, had_any_match)
    ELSE IF settings(pats[pos + 1]).max_retries > 0
    THEN [current_position |-> pos, result |-> OkNone, invoked |-> <<>>]
    ELSE [current_position |-> 0, result |-> OkNone, invoked |-> <<>>]

process_loop(pats, exts, item, state, pos, had_any_match) ==
    IF pos >= Len(pats)
    THEN [current_position |-> 0,
          result |-> IF had_any_match THEN OkSome(item) ELSE OkNone,
          invoked |-> <<>>]
    ELSE IF matches(pats[pos + 1], item)
    THEN on_match(pats, exts, item, state, pos)
    ELSE IF settings(pats[pos + 1]).optional
    THEN process_loop(pats, exts, item, state, pos + 1, had_any_match)
    ELSE [current_position |-> 0, result |-> OkNone, invoked |-> <<>>]

\* Mutant of process_item: the item is counted before the chain is found
\* empty.
process_item_counts_first(m, item) ==
    LET total == m.total_processed + 1
        state == MatchState(item, m.current_position, total)
        r == process_loop(m.patterns, m.extractors, item, state,
                          m.current_position, FALSE)
    IN  IF Len(m.patterns) = 0
        THEN [current_position |-> m.current_position, total_processed |-> total,
              result |-> ErrNoPatterns, invoked |-> <<>>]
        ELSE [current_position |-> r.current_position, total_processed |-> total,
              result |-> r.result, invoked |-> r.invoked]

\* Mutant of process_item: a call that ends in an extractor error is not
\* counted.
process_item_counts_ok(m, item) ==
    IF Len(m.patterns) = 0
    THEN [current_position |-> m.current_position,
          total_processed |-> m.total_processed,
          result |-> ErrNoPatterns, invoked |-> <<>>]
    ELSE LET total == m.total_processed + 1
             state == MatchState(item, m.current_position, total)
             r == process_loop(m.patterns, m.extractors, item, state,
                               m.current_position, FALSE)
         IN  [current_position |-> r.current_position,
              total_processed |-> IF r.result.tag = "Ok" THEN total
                                  ELSE m.total_processed,
              result |-> r.result, invoked |-> r.invoked]

\* Matcher::process_item(item) on the matcher m: the fields it leaves, what
\* it returns and the extractor calls it made. (The counters are usize; the
\* caps on total_processed keep them far from its width.)
process_item(m, item) ==
    IF Len(m.patterns) = 0
    THEN [current_position |-> m.current_position,
          total_processed |-> m.total_processed,
          result |-> ErrNoPatterns, invoked |-> <<>>]
    ELSE LET total == m.total_processed + 1
             state == MatchState(item, m.current_position, total)
             r == process_loop(m.patterns, m.extractors, item, state,
                               m.current_position, FALSE)
         IN  [current_position |-> r.current_position,
              total_processed |-> total,
              result |-> r.result, invoked |-> r.invoked]

\* The record the log keeps of one process_item call.
LogEntry(m, item, r) ==
    [item |-> item, position |-> m.current_position, len |-> Len(m.patterns),
     result |-> r.result, invoked |-> r.invoked, after |-> r.current_position,
     total |-> r.total_processed]

\* Matcher::process_items(items): the for loop from item i on, results the
\* vector collected so far.
RECURSIVE process_items_from(_, _, _, _)

\* Mutant of process_items_from: an extracted value replaces the vector
\* collected so far.
process_items_from_keeps_last(m, items, i, results) ==
    IF i > Len(items)
    THEN [current_position |-> m.current_position,
          total_processed |-> m.total_processed,
          ret |-> OkNone, values |-> results]
    ELSE LET r == process_item(m, items[i])
             next == [m EXCEPT !.current_position = r.current_position,
                               !.total_processed = r.total_processed]
         IN  IF r.result.tag # "Ok"
             THEN [current_position |-> r.current_position,
                   total_processed |-> r.total_processed,
                   ret |-> r.result, values |-> <<>>]
             ELSE process_items_from(next, items, i + 1,
                      IF r.result.some THEN <<r.result.value>> ELSE results)

\* Mutant of process_items_from: a failed call is dropped and the loop goes
\* on with the next item.
process_items_from_skips_failed(m, items, i, results) ==
    IF i > Len(items)
    THEN [current_position |-> m.current_position,
          total_processed |-> m.total_processed,
          ret |-> OkNone, values |-> results]
    ELSE LET r == process_item(m, items[i])
             next == [m EXCEPT !.current_position = r.current_position,
                               !.total_processed = r.total_processed]
         IN  process_items_from(next, items, i + 1,
                 IF r.result.tag = "Ok" /\ r.result.some
                 THEN Append(results, r.result.value) ELSE results)

process_items_from(m, items, i, results) ==
    IF i > Len(items)
    THEN [current_position |-> m.current_position,
          total_processed |-> m.total_processed,
          ret |-> OkNone, values |-> results]
    ELSE LET r == process_item(m, items[i])
             next == [m EXCEPT !.current_position = r.current_position,
                               !.total_processed = r.total_processed]
         IN  IF r.result.tag # "Ok"
             THEN [current_position |-> r.current_position,
                   total_processed |-> r.total_processed,
                   ret |-> r.result, values |-> <<>>]
             ELSE process_items_from(next, items, i + 1,
                      IF r.result.some THEN Append(results, r.result.value) ELSE results)

\* Matcher::process_items(items): Ok(values) when ret is Ok, else the error
\* (or the unwinding) of the call that failed.
process_items(m, items) == process_items_from(m, items, 1, <<>>)

\* ------------------------------------------- the batch engine (lib_backup.rs)

\* Option<usize>::None, for min_repeat and max_repeat.
NoBound == -1

\* Option<String>::None, for capture_name and Pattern.name.
NoName == "<None>"

\* PatternElem::Value { value, min_repeat, max_repeat, capture_name }
Value(value, min_repeat, max_repeat, capture_name) ==
    [elem |-> "Value", value |-> value, matcher |-> "-", min_repeat |-> min_repeat,
     max_repeat |-> max_repeat, capture_name |-> capture_name]

\* PatternElem::Matcher { matcher, min_repeat, max_repeat, capture_name };
\* the boxed closure is named by what it computes, as for predicate.
Matcher(matcher, min_repeat, max_repeat, capture_name) ==
    [elem |-> "Matcher", value |-> 0, matcher |-> matcher, min_repeat |-> min_repeat,
     max_repeat |-> max_repeat, capture_name |-> capture_name]

\* PatternElem::Any { min_repeat, max_repeat, capture_name }
AnyElem(min_repeat, max_repeat, capture_name) ==
    [elem |-> "Any", value |-> 0, matcher |-> "-", min_repeat |-> min_repeat,
     max_repeat |-> max_repeat, capture_name |-> capture_name]

\* Pattern::new(pattern)
Pattern(pattern) ==
    [pattern |-> pattern, callback |-> FALSE, overlap |-> TRUE,
     deduplication |-> FALSE, name |-> NoName]

\* Pattern::with_callback(cb); the callback is a closure that records the
\* slice it is called with.
with_callback(pat) == [pat EXCEPT !.callback = TRUE]

\* Pattern::with_name(name)
with_name(pat, name) == [pat EXCEPT !.name = name]

\* Pattern::overlap(allow)
overlap(pat, allow) == [pat EXCEPT !.overlap = allow]

\* Option::unwrap_or
unwrap_or(bound, default) == IF bound = NoBound THEN default ELSE bound

\* find_matches, pat.name.clone().unwrap_or_else(|| format!("pattern_{}", p_idx))
pat_name(pat, p_idx) ==
    IF pat.name # NoName THEN pat.name
    ELSE CASE p_idx = 0 -> "pattern_0"
           [] p_idx = 1 -> "pattern_1"
           [] OTHER -> "pattern_2"

\* find_matches, elem_match: the element against one item of the window.
elem_match(elem, item) ==
    CASE elem.elem = "Value" -> item = elem.value
      [] elem.elem = "Matcher" -> call_function(elem.matcher, item)
      [] elem.elem = "Any" -> TRUE

\* find_matches, the inner while loop: from win_pos (0-based) on, consume
\* matching items until repeat_max are taken, the window ends or an item
\* does not match. The repeat_count it ends with.
RECURSIVE repeat_loop(_, _, _, _, _)

\* Mutant of repeat_loop: an item is consumed whether it matches or not.
repeat_loop_takes_any(elem, window, win_pos, repeat_count, repeat_max) ==
    IF repeat_count < repeat_max /\ win_pos < Len(window)
    THEN repeat_loop(elem, window, win_pos + 1, repeat_count + 1, repeat_max)
    ELSE repeat_count

repeat_loop(elem, window, win_pos, repeat_count, repeat_max) ==
    IF repeat_count < repeat_max /\ win_pos < Len(window)
           /\ elem_match(elem, window[win_pos + 1])
    THEN repeat_loop(elem, window, win_pos + 1, repeat_count + 1, repeat_max)
    ELSE repeat_count

\* HashMap::insert
insert(map, key, val) ==
    [k \in DOMAIN map \cup {key} |-> IF k = key THEN val ELSE map[k]]

\* HashMap::new()
EmptyMap == [k \in {} |-> <<>>]

\* The items of the window at the given (0-based) indices.
ItemsAt(window, indices) == [i \in 1..Len(indices) |-> window[indices[i] + 1]]

\* find_matches, the for loop over the pattern's elements from element k
\* (from 1) on, with the window position, the indices matched and the
\* captures so far; tried lists the elements attempted, as they went.
RECURSIVE match_elems(_, _, _, _, _, _, _)

\* Mutant of match_elems: when the rest of the pattern fails after an
\* element took its run, the element is tried again with fewer repetitions,
\* down to repeat_min.
match_elems_backtracks(pat, window, k, win_pos, match_indices, captures, tried) ==
    IF k > Len(pat.pattern)
    THEN [matched |-> TRUE, match_indices |-> match_indices,
          captures |-> captures, tried |-> tried]
    ELSE LET elem == pat.pattern[k]
             repeat_min == unwrap_or(elem.min_repeat, 1)
             repeat_max == unwrap_or(elem.max_repeat, 1)
             longest == repeat_loop(elem, window, win_pos, 0, repeat_max)
             rest(n) ==
                 match_elems(pat, window, k + 1, win_pos + n,
                     match_indices \o [i \in 1..n |-> win_pos + i - 1],
                     IF elem.capture_name # NoName
                     THEN insert(captures, elem.capture_name,
                                 ItemsAt(window, [i \in 1..n |-> win_pos + i - 1]))
                     ELSE captures,
                     Append(tried, [element |-> k, win_pos |-> win_pos,
                                    repeat_count |-> n, ok |-> TRUE]))
             fits == {n \in repeat_min..longest : rest(n).matched}
         IN  IF fits = {}
             THEN [matched |-> FALSE, match_indices |-> match_indices,
                   captures |-> captures,
                   tried |-> Append(tried, [element |-> k, win_pos |-> win_pos,
                                            repeat_count |-> longest, ok |-> FALSE])]
             ELSE rest(CHOOSE n \in fits : \A m \in fits : m <= n)

match_elems(pat, window, k, win_pos, match_indices, captures, tried) ==
    IF k > Len(pat.pattern)
    THEN [matched |-> TRUE, match_indices |-> match_indices,
          captures |-> captures, tried |-> tried]
    ELSE LET elem == pat.pattern[k]
             repeat_min == unwrap_or(elem.min_repeat, 1)
             repeat_max == unwrap_or(elem.max_repeat, 1)
             repeat_count == repeat_loop(elem, window, win_pos, 0, repeat_max)
             repeat_indices == [i \in 1..repeat_count |-> win_pos + i - 1]
             attempt == [element |-> k, win_pos |-> win_pos,
                         repeat_count |-> repeat_count,
                         ok |-> repeat_count >= repeat_min]
         IN  IF repeat_count < repeat_min
             THEN [matched |-> FALSE, match_indices |-> match_indices,
                   captures |-> captures, tried |-> Append(tried, attempt)]
             ELSE match_elems(pat, window, k + 1, win_pos + repeat_count,
                      match_indices \o repeat_indices,
                      IF elem.capture_name # NoName
                      THEN insert(captures, elem.capture_name,
                                  ItemsAt(window, repeat_indices))
                      ELSE captures,
                      Append(tried, attempt))

\* find_matches, a match at w_idx: the callback, if present, is called with
\* the matched items, and the captures are pushed under the pattern's
\* name. acc holds the result map, the callback calls made, and (as they
\* went) the matches reported and the elements attempted.
\* Mutant of report: the callback is handed the whole window.
report_passes_window(pat, p_idx, window, w_idx, m, acc) ==
    LET name == pat_name(pat, p_idx)
        entry == IF name \in DOMAIN acc.results THEN acc.results[name] ELSE <<>>
    IN  [acc EXCEPT
            !.callbacks = IF pat.callback
                          THEN Append(@, [pattern |-> p_idx, slice |-> window])
                          ELSE @,
            !.results = insert(@, name, Append(entry, m.captures)),
            !.reported = Append(@, [pattern |-> p_idx, name |-> name, start |-> w_idx,
                                    indices |-> m.match_indices,
                                    captures |-> m.captures])]

report(pat, p_idx, window, w_idx, m, acc) ==
    LET name == pat_name(pat, p_idx)
        entry == IF name \in DOMAIN acc.results THEN acc.results[name] ELSE <<>>
    IN  [acc EXCEPT
            !.callbacks = IF pat.callback
                          THEN Append(@, [pattern |-> p_idx,
                                          slice |-> ItemsAt(window, m.match_indices)])
                          ELSE @,
            !.results = insert(@, name, Append(entry, m.captures)),
            !.reported = Append(@, [pattern |-> p_idx, name |-> name, start |-> w_idx,
                                    indices |-> m.match_indices,
                                    captures |-> m.captures])]

\* The elements attempted in one try of the pattern at w_idx, added to acc.
attempted(p_idx, w_idx, m, acc) ==
    [acc EXCEPT !.tried = @ \o [i \in 1..Len(m.tried) |->
        [pattern |-> p_idx, start |-> w_idx, element |-> m.tried[i].element,
         win_pos |-> m.tried[i].win_pos, repeat_count |-> m.tried[i].repeat_count,
         ok |-> m.tried[i].ok]]]

\* find_matches, the while loop over the window positions from w_idx on.
RECURSIVE scan_window(_, _, _, _, _)

\* Mutant of scan_window: a match that consumed nothing is reported too.
RECURSIVE scan_window_reports_empty(_, _, _, _, _)
scan_window_reports_empty(pat, p_idx, window, w_idx, acc) ==
    IF w_idx >= Len(window) THEN acc
    ELSE LET m == match_elems(pat, window, 1, w_idx, <<>>, EmptyMap, <<>>)
             seen == attempted(p_idx, w_idx, m, acc)
         IN  scan_window_reports_empty(pat, p_idx, window, w_idx + 1,
                 IF m.matched
                 THEN report(pat, p_idx, window, w_idx, m, seen)
                 ELSE seen)

\* Mutant of scan_window: after a match that consumed nothing the same
\* position is tried once more before the scan moves on.
scan_window_stays_on_empty(pat, p_idx, window, w_idx, acc) ==
    IF w_idx >= Len(window) THEN acc
    ELSE LET m == match_elems(pat, window, 1, w_idx, <<>>, EmptyMap, <<>>)
             seen == attempted(p_idx, w_idx, m, acc)
             again == /\ m.matched
                      /\ m.match_indices = <<>>
                      /\ \A i \in 1..Len(acc.tried) :
                            ~(acc.tried[i].pattern = p_idx /\ acc.tried[i].start = w_idx)
         IN  scan_window(pat, p_idx, window, IF again THEN w_idx ELSE w_idx + 1,
                 IF m.matched /\ m.match_indices # <<>>
                 THEN report(pat, p_idx, window, w_idx, m, seen)
                 ELSE seen)

scan_window(pat, p_idx, window, w_idx, acc) ==
    IF w_idx >= Len(window) THEN acc
    ELSE LET m == match_elems(pat, window, 1, w_idx, <<>>, EmptyMap, <<>>)
             seen == attempted(p_idx, w_idx, m, acc)
         IN  scan_window(pat, p_idx, window, w_idx + 1,
                 IF m.matched /\ m.match_indices # <<>>
                 THEN report(pat, p_idx, window, w_idx, m, seen)
                 ELSE seen)

\* find_matches, the for loop over the patterns from index p_idx (0-based).
RECURSIVE find_matches_from(_, _, _, _)

\* Mutant of find_matches_from: a pattern without elements is scanned like
\* any other, and matches wherever it is tried.
find_matches_from_takes_empty(window, pats, p_idx, acc) ==
    IF p_idx >= Len(pats) THEN acc
    ELSE IF Len(window) = 0
    THEN find_matches_from(window, pats, p_idx + 1, acc)
    ELSE find_matches_from(window, pats, p_idx + 1,
             scan_window_reports_empty(pats[p_idx + 1], p_idx, window, 0, acc))

find_matches_from(window, pats, p_idx, acc) ==
    IF p_idx >= Len(pats) THEN acc
    ELSE IF Len(pats[p_idx + 1].pattern) = 0 \/ Len(window) = 0
    THEN find_matches_from(window, pats, p_idx + 1, acc)
    ELSE find_matches_from(window, pats, p_idx + 1,
             scan_window(pats[p_idx + 1], p_idx, window, 0, acc))

\* ScrollingWindowPatternMatcherRef::find_matches(window, patterns): the
\* map it returns (results), the callback calls it made, and what it did
\* on the way.
find_matches(window, pats) ==
    find_matches_from(window, pats, 0,
        [results |-> EmptyMap, callbacks |-> <<>>, reported |-> <<>>, tried |-> <<>>])

\* What a panic leaves in place of a value.
Panicked == [elem |-> "panic!"]

\* Clone for PatternElem: Value and Any are rebuilt field by field, a
\* Matcher panics ("Cannot clone PatternElem::Matcher").
clone_elem(e) ==
    CASE e.elem = "Value" ->
            Value(e.value, e.min_repeat, e.max_repeat, e.capture_name)
      [] e.elem = "Any" -> AnyElem(e.min_repeat, e.max_repeat, e.capture_name)
      [] e.elem = "Matcher" -> Panicked

\* Clone for Pattern: the elements are cloned, the callback is not
\* ("Cannot clone callback").
clone_pattern(pat) ==
    LET elems == [i \in 1..Len(pat.pattern) |-> clone_elem(pat.pattern[i])]
    IN  IF \E i \in 1..Len(elems) : elems[i] = Panicked
        THEN Panicked
        ELSE [pattern |-> elems, callback |-> FALSE, overlap |-> pat.overlap,
              deduplication |-> pat.deduplication, name |-> pat.name]

\* ScrollingWindowPatternMatcherRef::find_matches_flexible(window, patterns):
\* the window and the patterns are cloned into vectors and handed to
\* find_matches; a panic of a clone unwinds out of the call.
find_matches_flexible(window, pats) ==
    LET window_vec == [i \in 1..Len(window) |-> window[i]]
        patterns_vec == [i \in 1..Len(pats) |-> clone_pattern(pats[i])]
        r == find_matches(window_vec, patterns_vec)
    IN  IF \E i \in 1..Len(pats) : patterns_vec[i] = Panicked
        THEN [ret |-> "panic", results |-> EmptyMap, callbacks |-> <<>>,
              reported |-> <<>>, tried |-> <<>>]
        ELSE [ret |-> "Ok", results |-> r.results, callbacks |-> r.callbacks,
              reported |-> r.reported, tried |-> r.tried]

\* ---------------------------------------------- the batch engine run(data)
\* run is used by tests/comprehensive_tests.rs; it is written here from
\* sections 3, 4.1, 4.2, 4.3 and 4.5 of the specification.

\* ElementSettings::new().min_repeat(..).max_repeat(..).greedy(..).extractor(..)
RunSettings(min_repeat, max_repeat, greedy, extractor) ==
    [min_repeat |-> min_repeat, max_repeat |-> max_repeat, greedy |-> greedy,
     extractor |-> extractor]

\* PatternElement::Value { value, settings }
ValueElement(value, s) == [value |-> value, settings |-> s]

\* add_pattern(name, elements): an entry of the pattern table.
NamedPattern(name, elements) == [name |-> name, elements |-> elements]

\* The extractor closures of the elements: none attached,
\*   Continue        |_| Ok(ExtractorAction::Continue)
\*   Skip(n)         |_| Ok(ExtractorAction::Skip(n))
\*   SkipPastLength  |s| Ok(ExtractorAction::Skip(s.input_length + 1))
\*   Jump(offset)    |_| Ok(ExtractorAction::Jump(offset))
\*   RestartFrom(p)  |_| Ok(ExtractorAction::RestartFrom(p))
\*   RemovePattern   |_| Ok(ExtractorAction::RemovePattern(name))
NoHook == [kind |-> "None", n |-> 0]

ContinueHook == [kind |-> "Continue", n |-> 0]

SkipHook(n) == [kind |-> "Skip", n |-> n]

SkipPastLengthHook == [kind |-> "SkipPastLength", n |-> 0]

JumpHook(offset) == [kind |-> "Jump", n |-> offset]

RestartFromHook(pos) == [kind |-> "RestartFrom", n |-> pos]

RemovePatternHook(name) == [kind |-> "RemovePattern", n |-> 0, name |-> name]

\* The match state handed to an element's extractor during run.
RunState(item, position, input_length) ==
    [current_item |-> item, current_position |-> position, input_length |-> input_length]

\* The action the closure returns.
call_hook(hook, state) ==
    CASE hook.kind = "Continue" -> [action |-> "Continue", n |-> 0, name |-> NoName]
      [] hook.kind = "Skip" -> [action |-> "Skip", n |-> hook.n, name |-> NoName]
      [] hook.kind = "SkipPastLength" ->
            [action |-> "Skip", n |-> state.input_length + 1, name |-> NoName]
      [] hook.kind = "Jump" -> [action |-> "Jump", n |-> hook.n, name |-> NoName]
      [] hook.kind = "RestartFrom" -> [action |-> "RestartFrom", n |-> hook.n, name |-> NoName]
      [] hook.kind = "RemovePattern" ->
            [action |-> "RemovePattern", n |-> 0, name |-> hook.name]

\* Mutant of skip_to: a target at the end of the input is rejected too.
skip_to_rejects_end(position, n, input_length) ==
    IF position + n >= input_length
    THEN [status |-> "err", cursor |-> position]
    ELSE [status |-> "moved", cursor |-> position + n]

\* Skip(n): the cursor advances by n beyond the current position;
\* InvalidPosition if position + n exceeds the input length.
skip_to(position, n, input_length) ==
    IF position + n > input_length
    THEN [status |-> "err", cursor |-> position]
    ELSE [status |-> "moved", cursor |-> position + n]

\* Jump(offset): the cursor moves by the signed offset, saturating at 0;
\* InvalidPosition if the target exceeds the input length.
jump_to(position, offset, input_length) ==
    LET target == IF position + offset < 0 THEN 0 ELSE position + offset
    IN  IF target > input_length
        THEN [status |-> "err", cursor |-> position]
        ELSE [status |-> "moved", cursor |-> target]

\* RestartFrom(pos): the cursor is forced to pos; InvalidPosition if pos
\* exceeds the input length.
restart_from(position, pos, input_length) ==
    IF pos > input_length
    THEN [status |-> "err", cursor |-> position]
    ELSE [status |-> "moved", cursor |-> pos]

\* The names of the patterns the pattern table holds.
names(tbl) == {tbl[i].name : i \in 1..Len(tbl)}

\* The pattern table holds a pattern of that name.
has_pattern(tbl, name) == name \in names(tbl)

\* Mutant of remove_pattern: removing a name the table does not hold is
\* accepted and changes nothing.
remove_pattern_ignores_missing(tbl, name) ==
    [status |-> "removed",
     table |-> SelectSeq(tbl, LAMBDA entry : entry.name # name)]

\* RemovePattern(name): the pattern table loses the named entry;
\* PatternNotFound if it holds none of that name.
remove_pattern(tbl, name) ==
    IF has_pattern(tbl, name)
    THEN [status |-> "removed",
          table |-> SelectSeq(tbl, LAMBDA entry : entry.name # name)]
    ELSE [status |-> "err", table |-> tbl]

\* What an attempt ends with: matched, failed, moved (the cursor was set)
\* or err (with the error and, for PatternNotFound, the name), the cursor,
\* the extractor calls made and the pattern table.
RunResult(status, cursor, invoked, tbl) ==
    [status |-> status, cursor |-> cursor, invoked |-> invoked, table |-> tbl,
     err |-> "-", name |-> NoName]

\* A cursor move asked for by an extractor: made, or InvalidPosition.
cursor_move(to, invoked, tbl) ==
    [RunResult(to.status, to.cursor, invoked, tbl) EXCEPT
        !.err = IF to.status = "err" THEN "InvalidPosition" ELSE "-"]

\* Section 4.1: from cursor on, the element consumes matching items while
\* matched_count < max_repeat and input remains, its extractor being
\* invoked after each consumed item; a non-greedy element stops once
\* min_repeat is reached.
RECURSIVE run_element(_, _, _, _, _, _)

\* The item at the cursor was consumed and matching goes on normally.
consumed(elem, data, cursor, matched_count, invoked, tbl) ==
    IF ~elem.settings.greedy /\ matched_count + 1 >= elem.settings.min_repeat
    THEN RunResult("matched", cursor + 1, invoked, tbl)
    ELSE run_element(elem, data, cursor + 1, matched_count + 1, invoked, tbl)

\* Section 4.5: remove_pattern(name) returned removal; its error aborts
\* the run and leaves the table as it was.
after_removal(removal, name, elem, data, cursor, matched_count, invoked, tbl) ==
    IF removal.status = "err"
    THEN [RunResult("err", cursor, invoked, tbl)
             EXCEPT !.err = "PatternNotFound", !.name = name]
    ELSE consumed(elem, data, cursor, matched_count, invoked, removal.table)

\* Section 4.2: the action the extractor returned for the item at the
\* cursor is carried out. Skip, Jump and RestartFrom set the cursor and end
\* the attempt, RemovePattern changes the table, an error aborts.
apply_action(act, elem, data, cursor, matched_count, invoked, tbl) ==
    LET seen == Append(invoked, [state |-> RunState(data[cursor + 1], cursor, Len(data)),
                                 action |-> act.action, n |-> act.n,
                                 name |-> act.name, held |-> names(tbl)])
    IN  CASE act.action = "Continue" ->
                consumed(elem, data, cursor, matched_count, seen, tbl)
          [] act.action = "Skip" ->
                cursor_move(skip_to(cursor, act.n, Len(data)), seen, tbl)
          [] act.action = "Jump" ->
                cursor_move(jump_to(cursor, act.n, Len(data)), seen, tbl)
          [] act.action = "RestartFrom" ->
                cursor_move(restart_from(cursor, act.n, Len(data)), seen, tbl)
          [] act.action = "RemovePattern" ->
                after_removal(remove_pattern(tbl, act.name), act.name,
                              elem, data, cursor, matched_count, seen, tbl)

run_element(elem, data, cursor, matched_count, invoked, tbl) ==
    IF ~(matched_count < elem.settings.max_repeat /\ cursor < Len(data)
            /\ data[cursor + 1] = elem.value)
    THEN RunResult(IF matched_count >= elem.settings.min_repeat
                   THEN "matched" ELSE "failed",
                   cursor, invoked, tbl)
    ELSE IF elem.settings.extractor = NoHook
    THEN consumed(elem, data, cursor, matched_count, invoked, tbl)
    ELSE apply_action(call_hook(elem.settings.extractor,
                                RunState(data[cursor + 1], cursor, Len(data))),
                      elem, data, cursor, matched_count, invoked, tbl)

\* Section 4.1, max_repeat = 0: with min_repeat = 0 the element is tested
\* once without consuming and succeeds iff it would not match; with
\* min_repeat > 0 it always fails.
negative_assertion(elem, data, cursor, invoked, tbl) ==
    RunResult(IF elem.settings.min_repeat = 0
                   /\ ~(cursor < Len(data) /\ data[cursor + 1] = elem.value)
              THEN "matched" ELSE "failed",
              cursor, invoked, tbl)

\* Section 4.3: the elements of the pattern, from element k on, matched
\* consecutively from cursor.
RECURSIVE run_pattern(_, _, _, _, _, _)

\* Element k ended with e: the next element follows a match, anything
\* else ends the attempt of the pattern.
after_element(e, pat, data, k) ==
    IF e.status = "matched"
    THEN run_pattern(pat, data, k + 1, e.cursor, e.invoked, e.table)
    ELSE e

run_pattern(pat, data, k, cursor, invoked, tbl) ==
    IF k > Len(pat)
    THEN RunResult("matched", cursor, invoked, tbl)
    ELSE after_element(IF pat[k].settings.max_repeat = 0
                       THEN negative_assertion(pat[k], data, cursor, invoked, tbl)
                       ELSE run_element(pat[k], data, cursor, 0, invoked, tbl),
                       pat, data, k)

\* Section 4.3: at one cursor position the patterns are tried in order,
\* from pattern p on; the first that matches wins and the cursor advances
\* by what it consumed, at least 1; if none matches the cursor advances
\* by 1. (The patterns all have the same priority: registration order.)
\* Section 4.5: pats is the table as the position found it; a pattern
\* removed since is no longer considered.
RECURSIVE run_position(_, _, _, _, _, _)

\* Pattern p ended with r at the cursor.
after_pattern(r, pats, data, cursor, p) ==
    CASE r.status = "matched" ->
            [r EXCEPT !.status = "moved",
                      !.cursor = IF r.cursor > cursor THEN r.cursor ELSE cursor + 1]
      [] r.status = "failed" ->
            run_position(pats, data, cursor, p + 1, r.invoked, r.table)
      [] OTHER -> r

run_position(pats, data, cursor, p, invoked, tbl) ==
    IF p > Len(pats)
    THEN RunResult("moved", cursor + 1, invoked, tbl)
    ELSE after_pattern(IF has_pattern(tbl, pats[p].name)
                       THEN run_pattern(pats[p].elements, data, 1, cursor, invoked, tbl)
                       ELSE RunResult("failed", cursor, invoked, tbl),
                       pats, data, cursor, p)

\* Section 4.3: the scan, until the cursor reaches the end of the input or
\* an error aborts it.
RECURSIVE run_from(_, _, _, _)

\* The patterns were tried at one position, with r: an error is returned,
\* anything else sets the cursor the scan goes on from.
after_position(r, data) ==
    IF r.status = "err"
    THEN [ret |-> r.err, name |-> r.name, cursor |-> r.cursor,
          invoked |-> r.invoked, table |-> r.table]
    ELSE run_from(r.table, data, r.cursor, r.invoked)

run_from(tbl, data, cursor, invoked) ==
    IF cursor >= Len(data)
    THEN [ret |-> "Ok", name |-> NoName, cursor |-> cursor, invoked |-> invoked,
          table |-> tbl]
    ELSE after_position(run_position(tbl, data, cursor, 1, invoked, tbl), data)

\* Matcher::run(data): Ok(()) or the error, the extractor calls made and
\* the pattern table it leaves.
run(tbl, data) == run_from(tbl, data, 0, <<>>)

\* No batch scan was made yet.
NoScan ==
    [op |-> "none", window |-> <<>>, patterns |-> <<>>, ret |-> "-", name |-> NoName,
     cursor |-> 0, results |-> EmptyMap, callbacks |-> <<>>, reported |-> <<>>,
     tried |-> <<>>, invoked |-> <<>>]

\* ------------------------------------------------------------ operations

\* What `call` holds when the last call was not a process call.
Called(op) ==
    [op |-> op, items |-> <<>>, position |-> current_position,
     total |-> total_processed, ret |-> OkNone, values |-> <<>>]

\* Matcher::new(window_size), as Default::default() calls it.
Init ==
    /\ patterns = <<>>
    /\ current_position = 0
    /\ total_processed = 0
    /\ window_size = DefaultWindowSize
    /\ extractors = [id \in ExtractorIds |-> NotRegistered]
    /\ context = NoContext
    /\ call = Called("new")
    /\ log = <<>>
    /\ table = <<>>
    /\ scan = NoScan

\* The settings an element is given explicitly.
GivenSettings == SettingsChoices \ {DefaultSettings}

\* The elements add_pattern is called with.
Elements ==
    {exact(v) : v \in PatternValues}
      \cup {exact_with_settings(v, s) : v \in PatternValues, s \in GivenSettings}

\* Matcher::add_pattern(pattern)
AddPattern(e) ==
    /\ Len(patterns) < MaxPatterns
    /\ patterns' = Append(patterns, e)
    /\ call' = Called("add_pattern")
    /\ UNCHANGED <<current_position, total_processed, window_size, extractors, context>>
    /\ UNCHANGED <<table, scan>>

\* Mutant of RegisterExtractor: an id that is already bound keeps its
\* extractor.
RegisterExtractor_keeps_first(id, kind) ==
    /\ extractors' = IF extractors[id] = NotRegistered
                     THEN [extractors EXCEPT ![id] = kind]
                     ELSE extractors
    /\ call' = Called("register_extractor")
    /\ UNCHANGED <<patterns, current_position, total_processed, window_size, context>>
    /\ UNCHANGED <<table, scan>>

\* Matcher::register_extractor(id, extractor)
RegisterExtractor(id, kind) ==
    /\ extractors' = [extractors EXCEPT ![id] = kind]
    /\ call' = Called("register_extractor")
    /\ UNCHANGED <<patterns, current_position, total_processed, window_size, context>>
    /\ UNCHANGED <<table, scan>>

\* Matcher::process_item(item), called while total_processed is below cap.
ProcessItem(item, cap) ==
    /\ total_processed < cap
    /\ LET r == process_item(Self, item)
       IN  /\ current_position' = r.current_position
           /\ total_processed' = r.total_processed
           /\ call' = [op |-> "process_item", items |-> <<item>>,
                       position |-> current_position, total |-> total_processed,
                       ret |-> r.result, values |-> <<>>]
    /\ UNCHANGED <<patterns, window_size, extractors, context, table, scan>>

\* Matcher::process_items(items), called while it cannot take
\* total_processed beyond cap.
ProcessItems(items, cap) ==
    /\ total_processed + Len(items) <= cap
    /\ LET r == process_items(Self, items)
       IN  /\ current_position' = r.current_position
           /\ total_processed' = r.total_processed
           /\ call' = [op |-> "process_items", items |-> items,
                       position |-> current_position, total |-> total_processed,
                       ret |-> r.ret, values |-> r.values]
    /\ UNCHANGED <<patterns, window_size, extractors, context, table, scan>>

\* Matcher::set_context(context)
SetContext(c) ==
    /\ context' = c
    /\ call' = Called("set_context")
    /\ UNCHANGED <<patterns, current_position, total_processed, window_size, extractors>>
    /\ UNCHANGED <<table, scan>>

\* Matcher::set_window_size(size)
SetWindowSize(size) ==
    /\ window_size' = size
    /\ call' = Called("set_window_size")
    /\ UNCHANGED <<patterns, current_position, total_processed, extractors, context>>
    /\ UNCHANGED <<table, scan>>

\* Mutant of Reset: the counter of processed items is left as it is.
Reset_keeps_total ==
    /\ current_position' = 0
    /\ call' = Called("reset")
    /\ UNCHANGED <<patterns, total_processed, window_size, extractors, context>>
    /\ UNCHANGED <<table, scan>>

\* Mutant of Reset: the matcher goes back to new(), dropping the context.
Reset_drops_context ==
    /\ current_position' = 0
    /\ total_processed' = 0
    /\ context' = NoContext
    /\ call' = Called("reset")
    /\ UNCHANGED <<patterns, window_size, extractors, table, scan>>

\* Matcher::reset()
Reset ==
    /\ current_position' = 0
    /\ total_processed' = 0
    /\ call' = Called("reset")
    /\ UNCHANGED <<patterns, window_size, extractors, context, table, scan>>

\* The vectors process_items is called with.
Batches == UNION {[1..n -> Items] : n \in 0..MaxBatch}

\* The matcher built from new() and driven item by item, under any
\* interleaving of its operations; the log is not kept.
Next ==
    \/ \E e \in Elements : AddPattern(e) /\ UNCHANGED log
    \/ \E id \in ExtractorIds, kind \in ExtractorKinds :
          RegisterExtractor(id, kind) /\ UNCHANGED log
    \/ \E item \in Items : ProcessItem(item, MaxTotal) /\ UNCHANGED log
    \/ Reset /\ UNCHANGED log

Spec == Init /\ [][Next]_vars

\* ---------------------------------------------------- the batch specification

\* The chains the batch specification starts from (with_patterns also takes
\* an empty vector).
BatchChains == UNION {[1..n -> Elements] : n \in 0..MaxBatchChain}

\* Matcher::with_patterns(patterns, window_size)
InitBatch ==
    /\ patterns \in BatchChains
    /\ current_position = 0
    /\ total_processed = 0
    /\ window_size = DefaultWindowSize
    /\ extractors = [id \in ExtractorIds |-> NotRegistered]
    /\ context = NoContext
    /\ call = Called("with_patterns")
    /\ log = <<>>
    /\ table = <<>>
    /\ scan = NoScan

\* The values set_context is called with.
Contexts == {"c1", "c2"}

\* A matcher built over a fixed chain and driven by process_items as well as
\* item by item; the log is not kept.
NextBatch ==
    \/ \E id \in ExtractorIds, kind \in ExtractorKinds :
          RegisterExtractor(id, kind) /\ UNCHANGED log
    \/ \E c \in Contexts : SetContext(c) /\ UNCHANGED log
    \/ \E item \in Items : ProcessItem(item, MaxTotal) /\ UNCHANGED log
    \/ \E items \in Batches : ProcessItems(items, MaxTotal) /\ UNCHANGED log
    \/ Reset /\ UNCHANGED log

SpecBatch == InitBatch /\ [][NextBatch]_vars

\* ------------------------------------------------ the scanning specification

\* The elements of the chains the scanning specification starts from:
\* elements without settings.
ScanElements == {exact(v) : v \in PatternValues} \cup {range(1, MaxValue)}

ScanChains == UNION {[1..n -> ScanElements] : n \in 1..MaxPatterns}

\* The item sequences process_items is given to scan.
Scans == UNION {[1..n -> Items] : n \in 0..MaxScan}

\* Matcher::with_patterns(patterns, window_size)
InitScan ==
    /\ patterns \in ScanChains
    /\ current_position = 0
    /\ total_processed = 0
    /\ window_size = DefaultWindowSize
    /\ extractors = [id \in ExtractorIds |-> NotRegistered]
    /\ context = NoContext
    /\ call = Called("with_patterns")
    /\ log = <<>>
    /\ table = <<>>
    /\ scan = NoScan

\* A matcher built over a chain of plain elements and handed whole item
\* sequences; the log is not kept.
NextScan ==
    \/ \E items \in Scans : ProcessItems(items, MaxScan) /\ UNCHANGED log
    \/ Reset /\ UNCHANGED log

SpecScan == InitScan /\ [][NextScan]_vars

\* ------------------------------------------ the batch engine's specification

\* Longest window handed to find_matches.
MaxWindow == 4

\* Largest repeat bound of an element.
MaxRepeat == 2

\* The (min_repeat, max_repeat) pairs elements are built with: none given,
\* 0..0, 0..2, 1..2, 2..2 and the inverted 2..1.
RepeatBounds ==
    {<<NoBound, NoBound>>, <<0, 0>>, <<0, MaxRepeat>>, <<1, MaxRepeat>>,
     <<MaxRepeat, MaxRepeat>>, <<MaxRepeat, 1>>}

\* The elements of the patterns handed to find_matches.
FindElements ==
    {Value(v, b[1], b[2], NoName) : v \in PatternValues, b \in RepeatBounds}
      \cup {AnyElem(NoBound, NoBound, NoName), AnyElem(1, MaxRepeat, NoName)}
      \cup {Matcher("even", NoBound, NoBound, NoName)}

\* The patterns handed to find_matches: up to two elements, with a
\* callback or without.
FindPatterns ==
    LET seqs == UNION {[1..n -> FindElements] : n \in 0..2}
    IN  {Pattern(q) : q \in seqs} \cup {with_callback(Pattern(q)) : q \in seqs}

\* Patterns of one element that are not to overlap.
OverlapPatterns == {overlap(with_callback(Pattern(<<e>>)), FALSE) : e \in FindElements}

\* Elements with a capture name, two of them under the same name, and one
\* without.
CaptureElements ==
    {Value(1, 1, MaxRepeat, "a"), Value(2, NoBound, NoBound, "a"),
     AnyElem(0, MaxRepeat, "b"), Value(2, NoBound, NoBound, NoName)}

\* Patterns of one or two elements that capture.
CapturePatterns ==
    {Pattern(q) : q \in UNION {[1..n -> CaptureElements] : n \in 1..2}}

\* The patterns of the tables that hold two: unnamed, or named as the
\* second unnamed pattern of a table is.
PairPatterns ==
    LET unnamed == {with_callback(Pattern(q)) :
                       q \in {<<>>, <<Value(1, NoBound, NoBound, NoName)>>,
                               <<AnyElem(NoBound, NoBound, NoName)>>}}
    IN  unnamed \cup {with_name(p, "pattern_1") : p \in unnamed}

\* The pattern slices handed to find_matches.
Tables ==
    {<<>>} \cup {<<p>> : p \in FindPatterns \cup OverlapPatterns \cup CapturePatterns}
           \cup {<<p, q>> : p \in PairPatterns, q \in PairPatterns}

\* The windows handed to find_matches.
Windows == UNION {[1..n -> Items] : n \in 0..MaxWindow}

\* The caller holds a table of patterns; the matcher of lib.rs is not used.
InitFind ==
    /\ patterns = <<>>
    /\ current_position = 0
    /\ total_processed = 0
    /\ window_size = DefaultWindowSize
    /\ extractors = [id \in ExtractorIds |-> NotRegistered]
    /\ context = NoContext
    /\ call = Called("new")
    /\ log = <<>>
    /\ table \in Tables
    /\ scan = NoScan

\* ScrollingWindowPatternMatcherRef::find_matches(window, &table).
\* find_matches keeps nothing from one call to the next (it takes &self and
\* builds a new map), so a behaviour makes one call of it.
FindMatches(window) ==
    /\ scan.op = "none"
    /\ LET r == find_matches(window, table)
       IN  scan' = [NoScan EXCEPT !.op = "find_matches", !.window = window,
                                  !.patterns = table, !.ret = "Ok",
                                  !.results = r.results, !.callbacks = r.callbacks,
                                  !.reported = r.reported, !.tried = r.tried]
    /\ UNCHANGED <<patterns, current_position, total_processed, window_size,
                   extractors, context, call, log, table>>

\* ScrollingWindowPatternMatcherRef::find_matches_flexible(window, &table).
FindMatchesFlexible(window) ==
    /\ scan.op = "none"
    /\ LET r == find_matches_flexible(window, table)
       IN  scan' = [NoScan EXCEPT !.op = "find_matches_flexible", !.window = window,
                                  !.patterns = table, !.ret = r.ret,
                                  !.results = r.results, !.callbacks = r.callbacks,
                                  !.reported = r.reported, !.tried = r.tried]
    /\ UNCHANGED <<patterns, current_position, total_processed, window_size,
                   extractors, context, call, log, table>>

NextFind ==
    \E window \in Windows : FindMatches(window) \/ FindMatchesFlexible(window)

SpecFind == InitFind /\ [][NextFind]_vars

\* ------------------------------------------- the specification of cloning

\* The elements of lib.rs that are cloned: exact, range and predicate,
\* with settings or without.
CloneElements ==
    Elements
      \cup {range(lo, hi) : lo \in PatternValues, hi \in PatternValues}
      \cup {predicate(f) : f \in {"even", "positive"}}
      \cup {predicate_with_settings("even", s) : s \in GivenSettings}
      \cup {range_with_settings(1, MaxValue, s) : s \in GivenSettings}

\* The caller holds an element of lib.rs (in patterns) and an element of
\* lib_backup.rs (in a pattern of table).
InitClone ==
    /\ patterns \in {<<e>> : e \in CloneElements}
    /\ current_position = 0
    /\ total_processed = 0
    /\ window_size = DefaultWindowSize
    /\ extractors = [id \in ExtractorIds |-> NotRegistered]
    /\ context = NoContext
    /\ call = Called("new")
    /\ log = <<>>
    /\ table \in {<<Pattern(<<e>>)>> : e \in FindElements \cup CaptureElements}
    /\ scan = NoScan

\* patterns[0].clone() of lib.rs: scan holds the element and its clone.
ClonePatternElement ==
    /\ scan.op = "none"
    /\ scan' = [NoScan EXCEPT !.op = "PatternElement::clone", !.ret = "Ok",
                              !.patterns = <<patterns[1]>>,
                              !.results = <<clone(patterns[1])>>]
    /\ UNCHANGED <<patterns, current_position, total_processed, window_size,
                   extractors, context, call, log, table>>

\* table[0].pattern[0].clone() of lib_backup.rs: scan holds the element
\* and its clone, unless the clone panicked.
ClonePatternElem ==
    /\ scan.op = "none"
    /\ LET e == table[1].pattern[1]
           c == clone_elem(e)
       IN  scan' = [NoScan EXCEPT !.op = "PatternElem::clone",
                                  !.ret = IF c = Panicked THEN "panic" ELSE "Ok",
                                  !.patterns = <<e>>,
                                  !.results = IF c = Panicked THEN <<>> ELSE <<c>>]
    /\ UNCHANGED <<patterns, current_position, total_processed, window_size,
                   extractors, context, call, log, table>>

NextClone == ClonePatternElement \/ ClonePatternElem

SpecClone == InitClone /\ [][NextClone]_vars

\* ------------------------------------------------ the specification of run

\* Longest input handed to run.
MaxData == 3

\* Largest n of a Skip(n) closure.
MaxSkip == 2

\* The names RemovePattern is issued with: those of the patterns registered
\* and one that never is.
RemovedNames == {"p1", "p2", "does_not_exist"}

\* The extractor closures attached to elements.
Hooks ==
    {NoHook, ContinueHook, SkipPastLengthHook} \cup {SkipHook(n) : n \in 1..MaxSkip}
      \cup {RemovePatternHook(name) : name \in RemovedNames}

\* The elements of the patterns registered for run: once, or once to
\* twice, greedy or not, or the negative assertion 0..0.
RunElements ==
    {ValueElement(v, RunSettings(1, 1, TRUE, h)) : v \in PatternValues, h \in Hooks}
      \cup {ValueElement(v, RunSettings(1, MaxRepeat, g, h)) :
               v \in PatternValues, h \in Hooks, g \in BOOLEAN}
      \cup {ValueElement(v, RunSettings(0, 0, TRUE, NoHook)) : v \in PatternValues}

\* The elements that stand second in a pattern.
TailElements ==
    {x \in RunElements :
        x.settings.extractor \in
            {NoHook, SkipPastLengthHook, RemovePatternHook("does_not_exist")}}

\* The pattern tables run is called on: one pattern of one or two
\* elements, or two patterns of one element without repeats.
RunTables ==
    {<<NamedPattern("p1", <<e>>)>> : e \in RunElements}
      \cup {<<NamedPattern("p1", <<e, f>>)>> : e \in RunElements, f \in TailElements}
      \cup {<<NamedPattern("p1", <<e>>), NamedPattern("p2", <<f>>)>> :
               e \in {x \in RunElements : x.settings.max_repeat = 1},
               f \in {x \in RunElements : x.settings.max_repeat = 1}}

\* The inputs of run.
Inputs == UNION {[1..n -> Items] : n \in 0..MaxData}

\* Matcher::new() followed by add_pattern for each pattern of the table.
InitRun ==
    /\ patterns = <<>>
    /\ current_position = 0
    /\ total_processed = 0
    /\ window_size = DefaultWindowSize
    /\ extractors = [id \in ExtractorIds |-> NotRegistered]
    /\ context = NoContext
    /\ call = Called("new")
    /\ log = <<>>
    /\ table \in RunTables
    /\ scan = NoScan

\* run(data) returned r: what the caller has then.
Returned(r, data) ==
    /\ scan' = [NoScan EXCEPT !.op = "run", !.window = data, !.patterns = table,
                              !.ret = r.ret, !.name = r.name, !.cursor = r.cursor,
                              !.invoked = r.invoked]
    /\ table' = r.table

\* Matcher::run(data); a behaviour makes one call of it.
Run(data) ==
    /\ scan.op = "none"
    /\ Returned(run(table, data), data)
    /\ UNCHANGED <<patterns, current_position, total_processed, window_size,
                   extractors, context, call, log>>

NextRun == \E data \in Inputs : Run(data)

SpecRun == InitRun /\ [][NextRun]_vars

\* ------------------------------- run(data), one scan position at a time

\* Largest distance of a Jump(offset) closure, forwards or backwards.
MaxJump == 1

\* The extractor closures that move the cursor, or do not.
StepHooks ==
    {NoHook, ContinueHook} \cup {SkipHook(n) : n \in 1..MaxSkip}
      \cup {JumpHook(offset) : offset \in (0 - MaxJump)..MaxJump}
      \cup {RestartFromHook(pos) : pos \in 0..(MaxData + 1)}

\* The elements of the patterns registered: once, or once to twice.
StepElements ==
    {ValueElement(v, RunSettings(1, hi, TRUE, h)) :
        v \in PatternValues, h \in StepHooks, hi \in {1, MaxRepeat}}

\* The pattern tables: one pattern of one element, or two patterns of one
\* element without repeats, the second without an extractor.
StepTables ==
    {<<NamedPattern("p1", <<e>>)>> : e \in StepElements}
      \cup {<<NamedPattern("p1", <<e>>), NamedPattern("p2", <<f>>)>> :
               e \in {x \in StepElements : x.settings.max_repeat = 1},
               f \in {x \in StepElements : x.settings.max_repeat = 1
                                              /\ x.settings.extractor = NoHook}}

\* Matcher::new() followed by add_pattern for each pattern of the table.
InitRunSteps ==
    /\ patterns = <<>>
    /\ current_position = 0
    /\ total_processed = 0
    /\ window_size = DefaultWindowSize
    /\ extractors = [id \in ExtractorIds |-> NotRegistered]
    /\ context = NoContext
    /\ call = Called("new")
    /\ log = <<>>
    /\ table \in StepTables
    /\ scan = NoScan

\* Matcher::run(data) is called: the cursor is at 0.
RunCall(data) ==
    /\ scan.op = "none"
    /\ scan' = [NoScan EXCEPT !.op = "running", !.window = data, !.patterns = table]
    /\ UNCHANGED <<patterns, current_position, total_processed, window_size,
                   extractors, context, call, log, table>>

\* The patterns were tried at the cursor, with r.
Turned(r) ==
    /\ scan' = [scan EXCEPT !.op = IF r.status = "err" THEN "run" ELSE @,
                            !.ret = IF r.status = "err" THEN r.err ELSE @,
                            !.name = r.name,
                            !.cursor = r.cursor,
                            !.invoked = r.invoked]
    /\ table' = r.table

\* One turn of the scan loop of run: it returns Ok when the cursor has
\* reached the end of the input, else the patterns are tried at the
\* cursor; an error returns it, anything else sets the cursor. scan.invoked
\* holds the extractor calls of the latest turn.
RunStep ==
    /\ scan.op = "running"
    /\ IF scan.cursor >= Len(scan.window)
       THEN /\ scan' = [scan EXCEPT !.op = "run", !.ret = "Ok"]
            /\ UNCHANGED table
       ELSE Turned(run_position(table, scan.window, scan.cursor, 1, <<>>, table))
    /\ UNCHANGED <<patterns, current_position, total_processed, window_size,
                   extractors, context, call, log>>

NextRunSteps == (\E data \in Inputs : RunCall(data)) \/ RunStep

\* run is synchronous: once called, its loop keeps taking turns.
SpecRunSteps == InitRunSteps /\ [][NextRunSteps]_vars /\ WF_vars(RunStep)

\* ------------------------------------------------- the feeding specification

\* The elements of the chains the feeding specification starts from: exact,
\* range and predicate elements without extractors, optional or not.
FeedElements ==
    {exact(v) : v \in PatternValues}
      \cup {exact_with_settings(v, [optional |-> TRUE, extractor_id |-> NoExtractor]) :
              v \in PatternValues}
      \cup {range(b[1], b[2]) : b \in {p \in PatternValues \X PatternValues : p[1] < p[2]}}
      \cup {predicate("even")}

FeedChains == UNION {[1..n -> FeedElements] : n \in 1..MaxPatterns}

\* Matcher::with_patterns(patterns, window_size)
InitFeed ==
    /\ patterns \in FeedChains
    /\ current_position = 0
    /\ total_processed = 0
    /\ window_size = DefaultWindowSize
    /\ extractors = [id \in ExtractorIds |-> NotRegistered]
    /\ context = NoContext
    /\ call = Called("with_patterns")
    /\ log = <<>>
    /\ table = <<>>
    /\ scan = NoScan

\* process_item(item), logged.
Feed(item) ==
    /\ ProcessItem(item, MaxFeed)
    /\ log' = Append(log, LogEntry(Self, item, process_item(Self, item)))

\* reset(); the log starts afresh.
FeedReset ==
    /\ Reset
    /\ log' = <<>>

\* A matcher built over a fixed chain and fed item by item.
NextFeed ==
    \/ \E item \in Items : Feed(item)
    \/ FeedReset

SpecFeed == InitFeed /\ [][NextFeed]_vars

\* --------------------------------------------- the registering specification

\* Most register_extractor calls made on one matcher.
MaxRegistrations == 2

\* The elements of the chains the registering specification starts from:
\* every element names an extractor id.
RegisterElements ==
    {exact_with_settings(v, [optional |-> o, extractor_id |-> id]) :
        v \in PatternValues, o \in BOOLEAN, id \in ExtractorIds}

RegisterChains == UNION {[1..n -> RegisterElements] : n \in 1..MaxBatchChain}

\* Matcher::with_patterns(patterns, window_size)
InitRegister ==
    /\ patterns \in RegisterChains
    /\ current_position = 0
    /\ total_processed = 0
    /\ window_size = DefaultWindowSize
    /\ extractors = [id \in ExtractorIds |-> NotRegistered]
    /\ context = NoContext
    /\ call = Called("with_patterns")
    /\ log = <<>>
    /\ table = <<>>
    /\ scan = NoScan

\* register_extractor(id, extractor), logged.
Register(id, kind) ==
    /\ Len(log) < MaxRegistrations
    /\ RegisterExtractor(id, kind)
    /\ log' = Append(log, [id |-> id, kind |-> kind])

\* A matcher built over a chain whose elements name extractor ids, on which
\* extractors are registered, and registered again, between the items.
NextRegister ==
    \/ \E id \in ExtractorIds, kind \in ExtractorKinds : Register(id, kind)
    \/ \E item \in Items : ProcessItem(item, MaxTotal) /\ UNCHANGED log

SpecRegister == InitRegister /\ [][NextRegister]_vars

\* ------------------------------------- the inert-configuration specification

\* Most process_item calls made on one matcher of this specification.
MaxInertFeed == 2

\* What an element's settings hold besides optional and extractor_id: the
\* defaults, or max_retries 2, timeout_ms Some(1000) and a context.
InertChoices ==
    {[max_retries |-> 0, timeout_ms |-> NoTimeout, context |-> NoContext],
     [max_retries |-> 2, timeout_ms |-> 1000, context |-> "c1"]}

\* The elements of the chains of this specification: every element is
\* built with settings that are written out in full.
InertElements ==
    {exact_with_settings(v, ElementSettings(c.max_retries, o, c.timeout_ms,
                                            c.context, id)) :
        v \in PatternValues, o \in BOOLEAN, c \in InertChoices,
        id \in {NoExtractor} \cup ExtractorIds}

InertChains == UNION {[1..n -> InertElements] : n \in 1..MaxBatchChain}

\* The window sizes the matcher is built with or set to.
WindowSizes == {5, DefaultWindowSize}

\* Matcher::with_patterns(patterns, window_size), and the extractor that is
\* registered on it before the first item.
InitInert ==
    /\ patterns \in InertChains
    /\ current_position = 0
    /\ total_processed = 0
    /\ window_size \in WindowSizes
    /\ extractors \in [ExtractorIds -> {"Continue", "ExtractDouble", "FailProcessing"}]
    /\ context = NoContext
    /\ call = Called("with_patterns")
    /\ log = <<>>
    /\ table = <<>>
    /\ scan = NoScan

\* process_item(item), logged.
InertFeed(item) ==
    /\ ProcessItem(item, MaxInertFeed)
    /\ log' = Append(log, LogEntry(Self, item, process_item(Self, item)))

\* A matcher whose elements carry max_retries, timeout_ms and a context,
\* fed item by item while its window size and its context are changed.
NextInert ==
    \/ \E item \in Items : InertFeed(item)
    \/ \E size \in WindowSizes : SetWindowSize(size) /\ UNCHANGED log
    \/ SetContext("c1") /\ UNCHANGED log

SpecInert == InitInert /\ [][NextInert]_vars

\* ------------------------------------------------------------ claims

\* The element has no extractor and is not optional.
PlainElement(e) ==
    /\ ~settings(e).optional
    /\ settings(e).extractor_id = NoExtractor

PlainChain == \A k \in 1..Len(patterns) : PlainElement(patterns[k])

\* The calls log[i], .., log[i + n - 1] started at cursor 0 and fed, one
\* after the other, an item matching each element of the chain of n.
MatchingRun(i) ==
    /\ i >= 1
    /\ i + Len(patterns) - 1 <= Len(log)
    /\ log[i].position = 0
    /\ \A k \in 1..Len(patterns) : matches(patterns[k], log[i + k - 1].item)

\* The calls of the run at i returned None, .., None, Some(last item fed)
\* and left the cursor at 0.
RunCompletes(i) ==
    LET n == Len(patterns)
    IN  /\ \A k \in 1..(n - 1) : log[i + k - 1].result = OkNone
        /\ log[i + n - 1].result = OkSome(log[i + n - 1].item)
        /\ log[i + n - 1].after = 0

\* The n calls after the run at i fed the same n items again.
FedAgain(i) ==
    LET n == Len(patterns)
    IN  /\ i + 2 * n - 1 <= Len(log)
        /\ \A k \in 0..(n - 1) : log[i + n + k].item = log[i + k].item

\* C1: on a chain of n >= 1 non-optional elements without extractors, n
\* calls of process_item from cursor 0 whose i-th item matches the i-th
\* element return None n-1 times and then Some(the last item), and leave
\* the cursor at 0; feeding the same n items again, with no reset between,
\* returns the same results.
C1_MatchingRunCompletes ==
    PlainChain =>
        \A i \in 1..Len(log) :
            MatchingRun(i) =>
                /\ RunCompletes(i)
                /\ FedAgain(i) =>
                      \A k \in 0..(Len(patterns) - 1) :
                          log[i + Len(patterns) + k].result = log[i + k].result

\* C1 witness: a plain chain of three elements was matched twice in a row.
C1_Witness ==
    /\ PlainChain
    /\ Len(patterns) = 3
    /\ Len(log) = 6
    /\ MatchingRun(1)
    /\ FedAgain(1)
    /\ log[3].result = OkSome(log[3].item)
    /\ log[6].result = OkSome(log[6].item)

\* The chain is [Exact(a), Exact(b) optional, Exact(c)], no extractors.
OptionalMiddleChain ==
    /\ Len(patterns) = 3
    /\ \A k \in 1..3 :
          /\ patterns[k].kind = "Exact"
          /\ settings(patterns[k]).extractor_id = NoExtractor
          /\ settings(patterns[k]).optional = (k = 2)

\* The calls log[i], .. fed the items of s, the first of them at cursor 0.
FedFromStart(i, s) ==
    /\ i + Len(s) - 1 <= Len(log)
    /\ log[i].position = 0
    /\ \A k \in 1..Len(s) : log[i + k - 1].item = s[k]

\* The optional-element law over the chain [Exact(a), Exact(b) optional,
\* Exact(c)], for the calls from log[i] on.
OptionalLaw(i, a, b, c, skipCovered) ==
    /\ FedFromStart(i, <<a, b, c>>) => log[i + 2].result = OkSome(c)
    /\ (skipCovered /\ FedFromStart(i, <<a, c>>)) => log[i + 1].result = OkSome(c)
    /\ \A d \in Items \ {b, c} :
          FedFromStart(i, <<a, d>>) =>
              log[i + 1].result = OkNone /\ log[i + 1].after = 0

\* C2 as stated: on [Exact(a), Exact(b) optional, Exact(c)] from cursor 0,
\* a,b,c completes with Some(c) on the third call, a,c completes with
\* Some(c) on the second call, and a,d with d different from b and c
\* returns None and leaves the cursor at 0.
C2_OptionalLawAsStated ==
    OptionalMiddleChain =>
        \A i \in 1..Len(log) :
            OptionalLaw(i, patterns[1].value, patterns[2].value, patterns[3].value, TRUE)

\* C2 amended: the same law, where a,c completes on the second call provided
\* b and c differ (an item equal to b is consumed by the optional element).
C2_OptionalLaw ==
    OptionalMiddleChain =>
        \A i \in 1..Len(log) :
            OptionalLaw(i, patterns[1].value, patterns[2].value, patterns[3].value,
                        patterns[2].value # patterns[3].value)

\* C2 witness: with b and c different, a,b,c completed on the third call
\* and then a,c completed on the second.
C2_Witness ==
    /\ OptionalMiddleChain
    /\ patterns[2].value # patterns[3].value
    /\ Len(log) = 5
    /\ FedFromStart(1, <<patterns[1].value, patterns[2].value, patterns[3].value>>)
    /\ FedFromStart(4, <<patterns[1].value, patterns[3].value>>)
    /\ log[3].result = OkSome(patterns[3].value)
    /\ log[4].result = OkNone
    /\ log[5].result = OkSome(patterns[3].value)

\* The last call was process_item(CallItem).
ProcessItemCalled == call.op = "process_item"

CallItem == call.items[1]

\* The matcher as the last call found it (no process call changes the chain
\* or the registry).
Before ==
    [patterns |-> patterns, extractors |-> extractors,
     current_position |-> call.position, total_processed |-> call.total]

\* Element k (0-based) carries the id of a registered extractor.
HasExtractor(k) ==
    /\ settings(patterns[k + 1]).extractor_id # NoExtractor
    /\ extractors[settings(patterns[k + 1]).extractor_id] # NotRegistered

\* What the extractor of element k returned in the last call.
Outcome(k) ==
    call_extractor(extractors[settings(patterns[k + 1]).extractor_id],
                   MatchState(CallItem, call.position, call.total + 1))

\* The last call was process_item on an item the element at the cursor
\* matched, and that element's registered extractor returned Ok(action).
ExtractorReturned(action) ==
    /\ ProcessItemCalled
    /\ call.position < Len(patterns)
    /\ matches(patterns[call.position + 1], CallItem)
    /\ HasExtractor(call.position)
    /\ Outcome(call.position).tag = "Ok"
    /\ Outcome(call.position).action = action

\* C3: a process_item call whose item does not match the element at the
\* cursor, that element not being optional, returns Ok(None) and leaves the
\* cursor at 0, whatever the item (also one that matches element 0).
C3_MismatchResets ==
    ( /\ ProcessItemCalled
      /\ call.position < Len(patterns)
      /\ ~matches(patterns[call.position + 1], CallItem)
      /\ ~settings(patterns[call.position + 1]).optional )
    => (call.ret = OkNone /\ current_position = 0)

\* C3 witness: in the middle of the chain, a call mismatched on an item
\* that matches element 0.
C3_Witness ==
    /\ ProcessItemCalled
    /\ call.position > 0
    /\ call.position < Len(patterns)
    /\ ~matches(patterns[call.position + 1], CallItem)
    /\ ~settings(patterns[call.position + 1]).optional
    /\ matches(patterns[1], CallItem)
    /\ current_position = 0

\* C4: when the element at the cursor matches the item and its registered
\* extractor returns Extract(v), process_item returns Ok(Some(v)) and the
\* cursor is 0 afterwards, at every index of the chain.
C4_ExtractReturnsValue ==
    ExtractorReturned("Extract") =>
        /\ call.ret = OkSome(Outcome(call.position).data)
        /\ current_position = 0

\* C4 witness: the middle element of a chain of three extracted a value
\* different from the item.
C4_Witness ==
    /\ ExtractorReturned("Extract")
    /\ Len(patterns) = 3
    /\ call.position = 1
    /\ call.ret.some
    /\ call.ret.value # CallItem
    /\ current_position = 0

\* C5: when the element at the cursor matches the item and its registered
\* extractor returns Restart, process_item returns Ok(None) and the cursor
\* is 0 afterwards, also on the last element of the chain.
C5_RestartReturnsNone ==
    ExtractorReturned("Restart") =>
        (call.ret = OkNone /\ current_position = 0)

\* C5 witness: the last element of a longer chain matched and its
\* extractor restarted the match.
C5_Witness ==
    /\ ExtractorReturned("Restart")
    /\ Len(patterns) > 1
    /\ call.position = Len(patterns) - 1
    /\ call.ret = OkNone
    /\ current_position = 0

\* The element without its extractor id.
Unattached(e) ==
    [e EXCEPT !.settings_val = [@ EXCEPT !.extractor_id = NoExtractor]]

\* The matcher m with no extractor attached to any element.
WithoutExtractors(m) ==
    [m EXCEPT !.patterns = [k \in 1..Len(m.patterns) |-> Unattached(m.patterns[k])]]

\* The outcomes of process_item on each item in turn, from the matcher m.
RECURSIVE EachCall(_, _)
EachCall(m, items) ==
    IF items = <<>> THEN <<>>
    ELSE LET r == process_item(m, Head(items))
         IN  <<r>> \o EachCall([m EXCEPT !.current_position = r.current_position,
                                         !.total_processed = r.total_processed],
                               Tail(items))

\* What feeding the items to m one by one shows: the result of each call
\* and the cursor after it.
Observed(m, items) ==
    LET rs == EachCall(m, items)
    IN  [k \in 1..Len(rs) |->
            [result |-> rs[k].result, after |-> rs[k].current_position]]

\* Every registered extractor always returns Continue.
AllContinue == \A id \in ExtractorIds : extractors[id] \in {NotRegistered, "Continue"}

\* C6: extractors that always return Continue change nothing: from every
\* state, every item sequence gets the same results and the same cursor
\* values as on the same matcher with no extractors attached.
C6_ContinueChangesNothing ==
    AllContinue =>
        \A items \in Batches :
            Observed(Self, items) = Observed(WithoutExtractors(Self), items)

\* C6 witness: an element carrying a Continue extractor matched and the
\* cursor advanced past it.
C6_Witness ==
    /\ AllContinue
    /\ ExtractorReturned("Continue")
    /\ current_position = call.position + 1

\* C7: process_item on a matcher without pattern elements returns
\* Err(NoPatterns) and leaves the cursor and total_processed as they were.
C7_NoPatterns ==
    (ProcessItemCalled /\ Len(patterns) = 0) =>
        /\ call.ret = ErrNoPatterns
        /\ current_position = call.position
        /\ total_processed = call.total

\* C7 witness: process_item was called on an empty chain.
C7_Witness ==
    /\ ProcessItemCalled
    /\ Len(patterns) = 0
    /\ call.ret = ErrNoPatterns

\* The element the call settles on: from position pos on, the first
\* element that matches the item or is not optional (Len(pats) if none).
RECURSIVE Settled(_, _, _)
Settled(pats, pos, item) ==
    IF pos >= Len(pats) THEN Len(pats)
    ELSE IF matches(pats[pos + 1], item) \/ ~settings(pats[pos + 1]).optional THEN pos
    ELSE Settled(pats, pos + 1, item)

\* The last call was process_item, an element matched the item and its
\* registered extractor ended with the given tag.
MatchedExtractorEnded(tag) ==
    /\ ProcessItemCalled
    /\ LET k == Settled(patterns, call.position, CallItem)
       IN  /\ k < Len(patterns)
           /\ matches(patterns[k + 1], CallItem)
           /\ HasExtractor(k)
           /\ Outcome(k).tag = tag

\* C8: when the extractor of a matched element returns Err(e), process_item
\* returns Err(ExtractorFailed(e)) with that same e, never Ok.
C8_ExtractorErrorReturned ==
    MatchedExtractorEnded("Err") =>
        call.ret = ErrExtractorFailed(
            Outcome(Settled(patterns, call.position, CallItem)).err)

\* C8 witness: an extractor failed with InvalidConfiguration and the call
\* returned that error.
C8_Witness ==
    /\ MatchedExtractorEnded("Err")
    /\ call.ret.tag = "Err"
    /\ call.ret.cause = "InvalidConfiguration"

\* Err(MatcherError::ExtractorPanic), the error the panic is to be turned into.
ErrExtractorPanic ==
    [tag |-> "Err", some |-> FALSE, value |-> 0, err |-> "ExtractorPanic", cause |-> "-"]

\* C9: a panic raised inside the extractor of a matched element is caught
\* at the call and returned as Err(ExtractorPanic); it does not unwind
\* through process_item.
C9_PanicIsCaught ==
    MatchedExtractorEnded("Panic") => call.ret = ErrExtractorPanic

\* The values of the calls that returned Some, in call order.
RECURSIVE SomeValues(_)
SomeValues(rs) ==
    IF rs = <<>> THEN <<>>
    ELSE (IF Head(rs).result.some THEN <<Head(rs).result.value>> ELSE <<>>)
             \o SomeValues(Tail(rs))

\* C10: process_items(items) does what process_item on each item in order
\* does from the same state: when none of those calls fails it returns Ok
\* with exactly their Some values, in order, and leaves the same cursor and
\* total_processed.
C10_ProcessItemsIsEachCall ==
    call.op = "process_items" =>
        LET rs == EachCall(Before, call.items)
            n == Len(rs)
        IN  (\A k \in 1..n : rs[k].result.tag = "Ok") =>
                /\ call.ret.tag = "Ok"
                /\ call.values = SomeValues(rs)
                /\ current_position =
                       IF n = 0 THEN call.position ELSE rs[n].current_position
                /\ total_processed =
                       IF n = 0 THEN call.total ELSE rs[n].total_processed

\* C10 witness: process_items returned two different values for two items.
C10_Witness ==
    /\ call.op = "process_items"
    /\ call.ret.tag = "Ok"
    /\ Len(call.items) = 2
    /\ Len(call.values) = 2
    /\ call.values[1] # call.values[2]

\* The first call of rs that did not return Ok (0 when all did).
FirstFailure(rs) ==
    IF \A k \in 1..Len(rs) : rs[k].result.tag = "Ok" THEN 0
    ELSE CHOOSE k \in 1..Len(rs) :
             /\ rs[k].result.tag # "Ok"
             /\ \A j \in 1..(k - 1) : rs[j].result.tag = "Ok"

\* The last call was process_items and, fed one by one, its k-th item is the
\* first on which process_item returns an error.
FailsOnItem(k) ==
    /\ call.op = "process_items"
    /\ k = FirstFailure(EachCall(Before, call.items))
    /\ k > 0
    /\ EachCall(Before, call.items)[k].result.tag = "Err"

\* process_items returned the error of its k-th item and no values, having
\* fed no later item: the cursor is where the k-th call left it and
\* total_processed grew by `counted`.
AbortedAt(k, counted) ==
    /\ call.ret = EachCall(Before, call.items)[k].result
    /\ call.values = <<>>
    /\ current_position = EachCall(Before, call.items)[k].current_position
    /\ total_processed = call.total + counted

\* C11 as stated: if process_item fails on the k-th item of
\* process_items(items), process_items returns that error at once, without
\* the values extracted from the first k-1 items, and total_processed has
\* grown by exactly k.
C11_AbortsCountingK ==
    \A k \in 1..MaxBatch : FailsOnItem(k) => AbortedAt(k, k)

\* C11 amended: the same, where total_processed has grown by k when the
\* error is an extractor's, and by 0 when it is NoPatterns (the chain is
\* empty, k is 1 and the item is not counted).
C11_AbortsOnFirstError ==
    \A k \in 1..MaxBatch :
        FailsOnItem(k) =>
            AbortedAt(k, IF call.ret.err = "NoPatterns" THEN 0 ELSE k)

\* C11 witness: process_items failed on its second item after its first
\* item had completed the pattern.
C11_Witness ==
    /\ FailsOnItem(2)
    /\ EachCall(Before, call.items)[1].result.some
    /\ call.ret.tag = "Err"
    /\ call.values = <<>>
    /\ total_processed = call.total + 2

\* The chain matches the items S[p], .., S[p + n - 1] (p counts from 1).
ChainMatchesAt(pats, S, p) ==
    /\ p + Len(pats) - 1 <= Len(S)
    /\ \A k \in 1..Len(pats) : matches(pats[k], S[p + k - 1])

\* The whole-sequence scan from position p on: at each position try the
\* chain; on a match report the end of the occurrence and advance by the
\* chain length, otherwise advance by 1. The ends of the occurrences found.
RECURSIVE ScanEnds(_, _, _)
ScanEnds(pats, S, p) ==
    IF p > Len(S) THEN <<>>
    ELSE IF ChainMatchesAt(pats, S, p)
    THEN <<p + Len(pats) - 1>> \o ScanEnds(pats, S, p + Len(pats))
    ELSE ScanEnds(pats, S, p + 1)

\* The element (from 1) at which the attempt at p fails on an item of S;
\* 0 when S ends before any element fails.
FailingElement(pats, S, p) ==
    LET fails(j) == p + j - 1 <= Len(S) /\ ~matches(pats[j], S[p + j - 1])
    IN  IF \E j \in 1..Len(pats) : fails(j)
        THEN CHOOSE j \in 1..Len(pats) : fails(j) /\ \A i \in 1..(j - 1) : ~fails(i)
        ELSE 0

\* The scan that, after a failed attempt, resumes after the item that
\* failed to match.
RECURSIVE ResumingScanEnds(_, _, _)
ResumingScanEnds(pats, S, p) ==
    IF p > Len(S) THEN <<>>
    ELSE IF ChainMatchesAt(pats, S, p)
    THEN <<p + Len(pats) - 1>> \o ResumingScanEnds(pats, S, p + Len(pats))
    ELSE IF FailingElement(pats, S, p) = 0 THEN <<>>
    ELSE ResumingScanEnds(pats, S, p + FailingElement(pats, S, p))

\* The indices of the calls of rs that returned Some, in order.
SomeIndices(rs) ==
    LET RECURSIVE from(_)
        from(k) == IF k > Len(rs) THEN <<>>
                   ELSE (IF rs[k].result.some THEN <<k>> ELSE <<>>) \o from(k + 1)
    IN  from(1)

\* The last call was process_items, from cursor 0, on a chain of
\* non-optional elements without extractors.
ScannedPlainChain ==
    /\ call.op = "process_items"
    /\ call.position = 0
    /\ Len(patterns) >= 1
    /\ PlainChain

\* process_items returned one value for each of the occurrences that end
\* at the given positions of its input: their last items, in order, each
\* returned by the call that fed that item.
ReportsOccurrences(ends) ==
    /\ call.ret.tag = "Ok"
    /\ call.values = [k \in 1..Len(ends) |-> call.items[ends[k]]]
    /\ SomeIndices(EachCall(Before, call.items)) = ends

\* C13 as stated: on a chain of non-optional elements without extractors,
\* process_items(S) returns one result for exactly the occurrences the
\* whole-sequence scan of S finds that advances by the chain length on a
\* match and by 1 otherwise, in order, each with its last item as value.
C13_ReproducesBatchScan ==
    ScannedPlainChain => ReportsOccurrences(ScanEnds(patterns, call.items, 1))

\* C13 amended: the same for the scan that, after an attempt fails on an
\* item, resumes after that item instead of one position further.
C13_ReproducesResumingScan ==
    ScannedPlainChain => ReportsOccurrences(ResumingScanEnds(patterns, call.items, 1))

\* C13 witness: the attempt at the first item failed and the scan then
\* found an occurrence, which process_items returned.
C13_Witness ==
    /\ ScannedPlainChain
    /\ Len(patterns) = 2
    /\ Len(call.items) = MaxScan
    /\ ~ChainMatchesAt(patterns, call.items, 1)
    /\ Len(call.values) = 1
    /\ ResumingScanEnds(patterns, call.items, 1) = <<MaxScan>>

\* A matcher freshly built, by with_patterns and register_extractor, over
\* the elements and extractors this one holds.
FreshMatcher ==
    [patterns |-> patterns, extractors |-> extractors,
     current_position |-> 0, total_processed |-> 0]

\* C12: reset() sets the cursor and total_processed to 0 from any state,
\* and afterwards every item sequence gets the results, the cursor values
\* and the MatchState values handed to extractors that it gets from a
\* freshly built matcher with the same elements and extractors.
C12_ResetIsFresh ==
    call.op = "reset" =>
        /\ current_position = 0
        /\ total_processed = 0
        /\ \A items \in Batches : EachCall(Self, items) = EachCall(FreshMatcher, items)

\* C12 witness: reset() was called in the middle of a match, after items
\* had been counted, on a matcher whose first element has an extractor.
C12_Witness ==
    /\ call.op = "reset"
    /\ call.position > 0
    /\ call.total > 0
    /\ HasExtractor(0)
    /\ current_position = 0
    /\ total_processed = 0

\* C14: process_item (returning Ok or Err), process_items and reset leave
\* the context, the pattern chain, the registered extractors and
\* window_size as they were; so context() returns what the last
\* set_context stored.
C14_EngineLeavesConfiguration ==
    [][call'.op \in {"process_item", "process_items", "reset"} =>
           /\ context' = context
           /\ patterns' = patterns
           /\ extractors' = extractors
           /\ window_size' = window_size]_vars

\* C14 witness: with a context set, a process call failed, and the context
\* is still there.
C14_Witness ==
    /\ context \in Contexts
    /\ call.op \in {"process_item", "process_items"}
    /\ call.ret.tag = "Err"

\* The last batch scan was find_matches.
Scanned == scan.op = "find_matches"

\* The element an entry of scan.tried is about.
TriedElement(t) == table[t.pattern + 1].pattern[t.element]

\* The length of the run of consecutive items of the window, from pos
\* (0-based) on, that the element matches.
RunLength(elem, window, pos) ==
    LET runs == {n \in 0..(Len(window) - pos) :
                    \A i \in 1..n : elem_match(elem, window[pos + i])}
    IN  CHOOSE n \in runs : \A m \in runs : m <= n

\* The smaller of two numbers.
Least(a, b) == IF a <= b THEN a ELSE b

\* The element was tried with bounds min <= max, max >= 1.
ProperBounds(elem) ==
    /\ unwrap_or(elem.min_repeat, 1) <= unwrap_or(elem.max_repeat, 1)
    /\ unwrap_or(elem.max_repeat, 1) >= 1

\* C15: an element with bounds min_repeat <= max_repeat, max_repeat >= 1,
\* tried at a position followed by a run of r matching items, succeeds iff
\* r >= min_repeat, and on success consumes min(r, max_repeat) items when
\* it is greedy and exactly min_repeat items when it is not. (find_matches
\* is given no greediness: the law is to hold whichever the element is
\* meant to have.)
C15_QuantifierLaw ==
    Scanned =>
        \A i \in 1..Len(scan.tried) :
            LET t == scan.tried[i]
                elem == TriedElement(t)
                r == RunLength(elem, scan.window, t.win_pos)
            IN  ProperBounds(elem) =>
                    /\ t.ok <=> r >= unwrap_or(elem.min_repeat, 1)
                    /\ t.ok =>
                          \A greedy \in BOOLEAN :
                              t.repeat_count =
                                  IF greedy
                                  THEN Least(r, unwrap_or(elem.max_repeat, 1))
                                  ELSE unwrap_or(elem.min_repeat, 1)

\* C16: an element Value(x) with min_repeat = 0 and max_repeat = 0, tried
\* at a position of the window, succeeds, consuming nothing, iff the item
\* at that position is not x.
C16_NegativeAssertion ==
    Scanned =>
        \A i \in 1..Len(scan.tried) :
            LET t == scan.tried[i]
                elem == TriedElement(t)
            IN  ( /\ elem.elem = "Value"
                  /\ elem.min_repeat = 0
                  /\ elem.max_repeat = 0
                  /\ t.win_pos < Len(scan.window) )
                => /\ t.ok <=> scan.window[t.win_pos + 1] # elem.value
                   /\ t.ok => t.repeat_count = 0

\* C17: when an element whose min_repeat is greater than its max_repeat is
\* scanned, the scan ends with the error InvalidPattern.
C17_InvertedBoundsRejected ==
    Scanned =>
        \A i \in 1..Len(scan.tried) :
            LET elem == TriedElement(scan.tried[i])
            IN  unwrap_or(elem.min_repeat, 1) > unwrap_or(elem.max_repeat, 1)
                    => scan.ret = "InvalidPattern"

\* Pattern p (from 1) of the table is the only one of its name.
OnlyOfItsName(p) ==
    \A q \in 1..Len(table) :
        q # p => pat_name(table[q], q - 1) # pat_name(table[p], p - 1)

\* C18: a pattern without elements never matches: whatever the window,
\* find_matches reports no match for it and does not call its callback.
C18_EmptyPatternNeverMatches ==
    Scanned =>
        \A p \in 1..Len(table) :
            Len(table[p].pattern) = 0 =>
                /\ \A i \in 1..Len(scan.reported) : scan.reported[i].pattern # p - 1
                /\ \A i \in 1..Len(scan.callbacks) : scan.callbacks[i].pattern # p - 1
                /\ OnlyOfItsName(p) => pat_name(table[p], p - 1) \notin DOMAIN scan.results

\* C18 witness: a table of an empty pattern with a callback and a pattern
\* that matched was scanned.
C18_Witness ==
    /\ Scanned
    /\ Len(table) = 2
    /\ Len(table[1].pattern) = 0
    /\ table[1].callback
    /\ scan.window # <<>>
    /\ scan.reported # <<>>

\* The sum of the first k values of c.
RECURSIVE SumTo(_, _)
SumTo(c, k) == IF k = 0 THEN 0 ELSE c[k] + SumTo(c, k - 1)

\* The pattern can match at position p (0-based) of the window: its
\* elements can take consecutive runs of matching items, each within its
\* bounds, at least one item in all.
CouldMatchAt(pat, window, p) ==
    \E c \in [1..Len(pat.pattern) -> 0..MaxRepeat] :
        /\ SumTo(c, Len(pat.pattern)) > 0
        /\ p + SumTo(c, Len(pat.pattern)) <= Len(window)
        /\ \A k \in 1..Len(pat.pattern) :
              /\ c[k] >= unwrap_or(pat.pattern[k].min_repeat, 1)
              /\ c[k] <= unwrap_or(pat.pattern[k].max_repeat, 1)
              /\ \A i \in 1..c[k] :
                    elem_match(pat.pattern[k], window[p + SumTo(c, k - 1) + i])

\* No pattern of the table can match anywhere in the window scanned.
NothingToFind ==
    \A q \in 1..Len(table) :
        \A p \in 0..(Len(scan.window) - 1) : ~CouldMatchAt(table[q], scan.window, p)

\* C19: a scan of an empty window, or of a window in which no pattern
\* matches at any position, completes with no effect: no callback is
\* called, no match is reported, and the table is as it was.
C19_NothingFoundNothingDone ==
    (Scanned /\ (scan.window = <<>> \/ NothingToFind)) =>
        /\ scan.ret = "Ok"
        /\ scan.results = EmptyMap
        /\ scan.callbacks = <<>>
        /\ scan.reported = <<>>
        /\ table = scan.patterns

\* C19 witness: a pattern of two elements with a callback was tried on a
\* window where its first element matched and nothing could match.
C19_Witness ==
    /\ Scanned
    /\ NothingToFind
    /\ Len(table) = 1
    /\ table[1].callback
    /\ Len(table[1].pattern) = 2
    /\ \E i \in 1..Len(scan.tried) : scan.tried[i].ok /\ scan.tried[i].repeat_count > 0
    /\ scan.results = EmptyMap

\* The i-th extractor call of the last run returned Skip(n) with a target,
\* position + n, beyond the input length.
SkippedPastEnd(i) ==
    /\ scan.invoked[i].action = "Skip"
    /\ scan.invoked[i].state.current_position + scan.invoked[i].n > Len(scan.window)

\* C20: during run(data), when an extractor returns Skip(n) and the
\* current position + n exceeds the input length, run aborts with
\* Err(InvalidPosition); a Skip whose target is within the input length
\* is not an error.
C20_SkipBoundChecked ==
    scan.op = "run" =>
        /\ \A i \in 1..Len(scan.invoked) :
              SkippedPastEnd(i) => (scan.ret = "InvalidPosition" /\ i = Len(scan.invoked))
        /\ scan.ret = "InvalidPosition" => \E i \in 1..Len(scan.invoked) : SkippedPastEnd(i)

\* C20 witness: a Skip landed exactly on the end of the input and the run
\* returned Ok.
C20_Witness ==
    /\ scan.op = "run"
    /\ scan.ret = "Ok"
    /\ \E i \in 1..Len(scan.invoked) :
          /\ scan.invoked[i].action = "Skip"
          /\ scan.invoked[i].state.current_position + scan.invoked[i].n = Len(scan.window)

\* The i-th extractor call of the last run returned RemovePattern(name)
\* while the pattern table held no pattern of that name.
RemovedAbsent(i) ==
    /\ scan.invoked[i].action = "RemovePattern"
    /\ scan.invoked[i].name \notin scan.invoked[i].held

\* C21: during run(data), when an extractor returns RemovePattern(name) and
\* the pattern table holds no pattern of that name, run aborts with
\* Err(PatternNotFound(name)) carrying that name, and the pattern table is
\* as the extractor call found it; PatternNotFound is returned in no other
\* case.
C21_RemoveAbsentAborts ==
    scan.op = "run" =>
        /\ \A i \in 1..Len(scan.invoked) :
              RemovedAbsent(i) =>
                  /\ i = Len(scan.invoked)
                  /\ scan.ret = "PatternNotFound"
                  /\ scan.name = scan.invoked[i].name
                  /\ table = SelectSeq(scan.patterns,
                                       LAMBDA pat : pat.name \in scan.invoked[i].held)
        /\ scan.ret = "PatternNotFound" =>
              \E i \in 1..Len(scan.invoked) : RemovedAbsent(i)
        /\ \A i \in 1..Len(scan.invoked) :
              (scan.invoked[i].action = "RemovePattern" /\ ~RemovedAbsent(i)
                  /\ i < Len(scan.invoked))
              => scan.invoked[i].name \notin scan.invoked[i + 1].held

\* C21 witness: a run removed a pattern of the table and was then aborted
\* by the removal of a name the table did not hold.
C21_Witness ==
    /\ scan.op = "run"
    /\ scan.ret = "PatternNotFound"
    /\ scan.name = "does_not_exist"
    /\ Len(table) < Len(scan.patterns)
    /\ RemovedAbsent(Len(scan.invoked))

\* The matches the last find_matches reported at position w (0-based).
ReportedAt(w) ==
    {i \in 1..Len(scan.reported) : scan.reported[i].start = w}

\* C22: at every scan position only the first pattern that fully matches
\* there, in priority order (find_matches is given no priorities, so in
\* the order of the slice), is applied: no later pattern has a match
\* reported or its callback called for that position.
C22_FirstMatchWins ==
    Scanned =>
        /\ \A w \in 0..(Len(scan.window) - 1) :
              \A i, j \in ReportedAt(w) :
                  scan.reported[i].pattern = scan.reported[j].pattern
        /\ Len(scan.callbacks)
              <= Cardinality({w \in 0..(Len(scan.window) - 1) : ReportedAt(w) # {}})

\* The attempts the last find_matches made of pattern p (0-based), in the
\* order it made them: each begins with the pattern's first element.
Attempts(p) ==
    SelectSeq(scan.tried, LAMBDA t : t.pattern = p /\ t.element = 1)

\* C23: the scan position of a pattern strictly increases from one attempt
\* to the next, also after a match that consumed nothing and after a
\* failed attempt, and stays within the window, so a pattern is attempted
\* at most once per item of the window and the scan ends.
C23_ForwardProgress ==
    Scanned =>
        \A p \in 0..(Len(table) - 1) :
            LET a == Attempts(p)
            IN  /\ \A i \in 1..(Len(a) - 1) : a[i + 1].start >= a[i].start + 1
                /\ \A i \in 1..Len(a) : a[i].start < Len(scan.window)
                /\ Len(a) <= Len(scan.window)

\* C23 witness: at some position the pattern matched consuming nothing,
\* and the scan went on to every later position and reported a match at
\* the next one.
C23_Witness ==
    /\ Scanned
    /\ Len(table) = 1
    /\ Len(Attempts(0)) = Len(scan.window)
    /\ \E w \in 0..(Len(scan.window) - 2) :
          /\ ReportedAt(w) = {}
          /\ \A i \in 1..Len(scan.tried) : scan.tried[i].start = w => scan.tried[i].ok
          /\ ReportedAt(w + 1) # {}

\* C24: run(data) returns, Ok or Err, on every input, also when an
\* extractor moves the cursor backwards each time it is invoked
\* (RestartFrom(p) with p at or before the matched position, Jump with a
\* negative offset).
C24_RunReturns == (scan.op = "running") ~> (scan.op = "run")

\* The input indices of the i-th match reported.
IndicesOf(i) == {scan.reported[i].indices[k] : k \in 1..Len(scan.reported[i].indices)}

\* C25: for a pattern with overlap = false, after a match at a position
\* that consumed k items the pattern is next attempted at position +
\* max(k, 1), and no two matches reported for it share an input index.
C25_NoOverlap ==
    Scanned =>
        \A p \in 1..Len(table) :
            ~table[p].overlap =>
                /\ \A i, j \in 1..Len(scan.reported) :
                      ( /\ i # j
                        /\ scan.reported[i].pattern = p - 1
                        /\ scan.reported[j].pattern = p - 1 )
                      => IndicesOf(i) \cap IndicesOf(j) = {}
                /\ \A i \in 1..Len(scan.reported) :
                      scan.reported[i].pattern = p - 1 =>
                          \A a \in 1..Len(Attempts(p - 1)) :
                              LET next == Attempts(p - 1)[a].start
                                  at == scan.reported[i].start
                              IN  next > at => next >= at + Len(scan.reported[i].indices)

\* The callback calls the last scan made for pattern p (0-based), and the
\* matches it reported of that pattern, in the order they were made.
CallbacksOf(p) == SelectSeq(scan.callbacks, LAMBDA c : c.pattern = p)

ReportedOf(p) == SelectSeq(scan.reported, LAMBDA r : r.pattern = p)

\* C26: in find_matches the callback of a pattern is called exactly once
\* per match reported of that pattern, in increasing order of the matches'
\* start positions, each time with exactly the items the match consumed,
\* in window order; the calls are as many as the entries reported for the
\* pattern (the entries under its name, when no other pattern has that
\* name).
C26_CallbackPerMatch ==
    Scanned =>
        \A p \in 1..Len(table) :
            LET cb == CallbacksOf(p - 1)
                rp == ReportedOf(p - 1)
                name == pat_name(table[p], p - 1)
            IN  IF table[p].callback
                THEN /\ Len(cb) = Len(rp)
                     /\ \A k \in 1..Len(cb) :
                           cb[k].slice = SubSeq(scan.window, rp[k].start + 1,
                                                rp[k].start + Len(rp[k].indices))
                     /\ \A k \in 1..(Len(rp) - 1) : rp[k].start < rp[k + 1].start
                     /\ OnlyOfItsName(p) =>
                           IF name \in DOMAIN scan.results
                           THEN Len(scan.results[name]) = Len(cb)
                           ELSE Len(cb) = 0
                ELSE cb = <<>>

\* C26 witness: the callback of a pattern was called for two matches, one
\* of them of two items, in a window that is not made of those items alone.
C26_Witness ==
    /\ Scanned
    /\ Len(table) = 1
    /\ table[1].callback
    /\ Len(CallbacksOf(0)) = 2
    /\ \E k \in 1..2 : Len(CallbacksOf(0)[k].slice) = 2
    /\ Len(scan.window) > 3

\* C27: find_matches_flexible(window, patterns) returns the map
\* find_matches returns for the same window and patterns and calls the
\* same callbacks with the same slices, whatever the patterns (also when
\* one carries a callback or a Matcher element).
C27_FlexibleAsFindMatches ==
    scan.op = "find_matches_flexible" =>
        LET r == find_matches(scan.window, scan.patterns)
        IN  /\ scan.ret = "Ok"
            /\ scan.results = r.results
            /\ scan.callbacks = r.callbacks

\* What element k of the pattern consumed in the i-th match reported: the
\* items of the window its attempt took.
ConsumedBy(i, k) ==
    LET r == scan.reported[i]
        t == CHOOSE t \in {scan.tried[n] : n \in 1..Len(scan.tried)} :
                 t.pattern = r.pattern /\ t.start = r.start /\ t.element = k
    IN  SubSeq(scan.window, t.win_pos + 1, t.win_pos + t.repeat_count)

\* C28: in every match reported by find_matches, each element with a
\* capture_name has an entry under that name in the match's capture map
\* holding exactly the items that element consumed in the match, in window
\* order, and the map has no other entries.
C28_NamedCaptures ==
    Scanned =>
        \A i \in 1..Len(scan.reported) :
            LET r == scan.reported[i]
                elems == table[r.pattern + 1].pattern
            IN  /\ \A k \in 1..Len(elems) :
                      elems[k].capture_name # NoName =>
                          /\ elems[k].capture_name \in DOMAIN r.captures
                          /\ r.captures[elems[k].capture_name] = ConsumedBy(i, k)
                /\ DOMAIN r.captures =
                      {elems[k].capture_name : k \in 1..Len(elems)} \ {NoName}

\* C29: the clone of a pattern element matches exactly the items the
\* element matches, unless cloning it fails (panics); it is never an
\* element that matches differently.
C29_CloneMatchesAlike ==
    /\ scan.op = "PatternElement::clone" =>
          \/ scan.ret = "panic"
          \/ \A item \in Items :
                matches(scan.results[1], item) <=> matches(scan.patterns[1], item)
    /\ scan.op = "PatternElem::clone" =>
          \/ scan.ret = "panic"
          \/ \A item \in Items :
                elem_match(scan.results[1], item) <=> elem_match(scan.patterns[1], item)

\* The entries of scan.tried for element k in the attempt of pattern p
\* (0-based) at position w.
TriedAt(p, w, k) ==
    {n \in 1..Len(scan.tried) :
        /\ scan.tried[n].pattern = p
        /\ scan.tried[n].start = w
        /\ scan.tried[n].element = k}

\* C30: at a start position each element is tried once, where the element
\* before it stopped, and takes the whole run of matching items there up
\* to max_repeat; when an element then fails, the pattern is not reported
\* at that start position: no element is tried again with fewer
\* repetitions.
C30_NoBacktracking ==
    Scanned =>
        /\ \A n \in 1..Len(scan.tried) :
              LET t == scan.tried[n]
                  elem == TriedElement(t)
                  hi == unwrap_or(elem.max_repeat, 1)
              IN  /\ Cardinality(TriedAt(t.pattern, t.start, t.element)) = 1
                  /\ t.repeat_count =
                        Least(RunLength(elem, scan.window, t.win_pos),
                              IF hi < 0 THEN 0 ELSE hi)
                  /\ IF t.element = 1 THEN t.win_pos = t.start
                     ELSE \E m \in TriedAt(t.pattern, t.start, t.element - 1) :
                              /\ scan.tried[m].ok
                              /\ t.win_pos = scan.tried[m].win_pos
                                                 + scan.tried[m].repeat_count
                  /\ ~t.ok =>
                        \A i \in ReportedAt(t.start) :
                            scan.reported[i].pattern # t.pattern

\* C30 witness: a pattern that could match at position 0, had its first
\* element taken fewer items, was tried there and not reported.
C30_Witness ==
    /\ Scanned
    /\ Len(table) = 1
    /\ Len(table[1].pattern) = 2
    /\ CouldMatchAt(table[1], scan.window, 0)
    /\ ReportedAt(0) = {}
    /\ \E n \in TriedAt(0, 0, 2) : ~scan.tried[n].ok

\* The cursor pos is within a chain of n elements: 0 when the chain is
\* empty, below n otherwise.
CursorWithin(pos, n) == IF n = 0 THEN pos = 0 ELSE pos >= 0 /\ pos < n

\* C31: after any sequence of add_pattern, register_extractor, process_item
\* (returning Ok or Err) and reset calls, the cursor is 0 when the chain is
\* empty and below pattern_count() otherwise, and every process_items call
\* made from there leaves it so too; also after an extractor failed
\* mid-call and after add_pattern in the middle of a match.
C31_CursorWithinChain ==
    /\ CursorWithin(current_position, Len(patterns))
    /\ \A items \in Batches :
          CursorWithin(process_items(Self, items).current_position, Len(patterns))

\* C31 witness: a call skipped optional elements, the extractor of the
\* element it then matched failed, and the cursor stays on that element,
\* inside the chain.
C31_Witness ==
    /\ ProcessItemCalled
    /\ call.ret.tag = "Err"
    /\ call.ret.err = "ExtractorFailed"
    /\ current_position > call.position
    /\ current_position = Len(patterns) - 1

\* The extractor calls the last process_item call made.
InvokedByCall == process_item(Before, CallItem).invoked

\* C32: total_processed counts the process_item calls that found a
\* non-empty chain since construction or the last reset(): it is 0 after
\* new() and after reset(), each process_item call on a non-empty chain
\* adds exactly 1 to it whatever the call returns (a value, nothing or an
\* extractor error), a call on an empty chain and the other operations leave
\* it alone; and the total_processed an extractor is handed already counts
\* the current item.
C32_TotalCountsCalls ==
    /\ call.op \in {"new", "reset"} => total_processed = 0
    /\ call.op \in {"add_pattern", "register_extractor"} => total_processed = call.total
    /\ ProcessItemCalled =>
          /\ total_processed = call.total + (IF Len(patterns) = 0 THEN 0 ELSE 1)
          /\ \A i \in 1..Len(InvokedByCall) :
                /\ InvokedByCall[i].state.total_processed = total_processed
                /\ InvokedByCall[i].state.total_processed >= 1

\* C32 witness: the second call since the reset ended in an extractor
\* error and was counted, the extractor having seen 2.
C32_Witness ==
    /\ ProcessItemCalled
    /\ call.ret.tag = "Err"
    /\ call.ret.err = "ExtractorFailed"
    /\ call.total = 1
    /\ total_processed = 2
    /\ Len(InvokedByCall) = 1
    /\ InvokedByCall[1].state.total_processed = 2

\* Matcher::is_matching()
is_matching == current_position > 0

\* C33: whenever process_item returns Ok(Some(_)), by completing the chain
\* or by an Extract action, the cursor is 0 afterwards; so is_matching() is
\* false after construction, after reset() and after every reported match,
\* the operations other than process_item leave it as it was, and after a
\* process_item call that returned it is true only if the call returned
\* Ok(None) or Err.
C33_ReportedMatchClearsCursor ==
    /\ (ProcessItemCalled /\ call.ret.tag = "Ok" /\ call.ret.some) => ~is_matching
    /\ call.op \in {"new", "reset"} => ~is_matching
    /\ call.op \in {"add_pattern", "register_extractor"} =>
          current_position = call.position
    /\ (ProcessItemCalled /\ call.ret.tag # "Panic" /\ is_matching) =>
          (call.ret = OkNone \/ call.ret.tag = "Err")

\* C33 witness: in the middle of a match, an element that is not the last
\* of the chain extracted a value, and the matcher is no longer matching.
C33_Witness ==
    /\ ExtractorReturned("Extract")
    /\ call.position > 0
    /\ call.position < Len(patterns) - 1
    /\ call.ret.tag = "Ok"
    /\ call.ret.some
    /\ ~is_matching

\* The last call was process_item on an item that matches none of the
\* elements from the cursor to the end of the chain, all of them optional.
SkippedToEnd ==
    /\ ProcessItemCalled
    /\ call.position < Len(patterns)
    /\ \A k \in (call.position + 1)..Len(patterns) :
          /\ settings(patterns[k]).optional
          /\ ~matches(patterns[k], CallItem)

\* C34: when the item matches none of the elements from the cursor to the
\* end of the chain and all of those elements are optional, process_item
\* skips them all (one step each, so at most pattern_count steps), returns
\* Ok(None), not a completion, calls no extractor and leaves the cursor at
\* 0; so a chain whose last element is optional returns Some(item) only on
\* an item that matches that last element.
C34_SkipToEndIsNoMatch ==
    /\ SkippedToEnd =>
          /\ Settled(patterns, call.position, CallItem) = Len(patterns)
          /\ call.ret = OkNone
          /\ InvokedByCall = <<>>
          /\ current_position = 0
    /\ ( /\ ProcessItemCalled
         /\ Len(patterns) > 0
         /\ settings(patterns[Len(patterns)]).optional
         /\ call.ret = OkSome(CallItem) )
       => matches(patterns[Len(patterns)], CallItem)

\* C34 witness: in the middle of a match, a call skipped two optional
\* elements, the last two of the chain, and returned Ok(None).
C34_Witness ==
    /\ SkippedToEnd
    /\ call.position > 0
    /\ Len(patterns) - call.position = 2
    /\ call.ret = OkNone
    /\ current_position = 0

\* The register_extractor calls made with the id, by their place in the log.
RegistrationsOf(id) == {i \in 1..Len(log) : log[i].id = id}

\* The extractor the most recent register_extractor call bound to the id.
LastRegistered(id) ==
    IF RegistrationsOf(id) = {} THEN NotRegistered
    ELSE log[CHOOSE i \in RegistrationsOf(id) :
                 \A j \in RegistrationsOf(id) : j <= i].kind

\* What the last process_item call would have done on a matcher that
\* differs from the one it found only in what is written.
AsOn(m) == process_item(m, CallItem)

\* C35: an element whose settings name an extractor id under which no
\* extractor was registered behaves as the same element without an
\* extractor: no extractor is called, no error is returned, and the result
\* and the cursor are the same; and when an id was registered more than
\* once, a call does what it does with the most recently registered
\* extractor alone, invoked once.
C35_RegistryLookup ==
    ProcessItemCalled =>
        /\ (\A id \in ExtractorIds : RegistrationsOf(id) = {}) =>
              /\ InvokedByCall = <<>>
              /\ call.ret.tag = "Ok"
              /\ call.ret = AsOn(WithoutExtractors(Before)).result
              /\ current_position = AsOn(WithoutExtractors(Before)).current_position
        /\ call.ret =
              AsOn([Before EXCEPT !.extractors =
                       [id \in ExtractorIds |-> LastRegistered(id)]]).result
        /\ current_position =
              AsOn([Before EXCEPT !.extractors =
                       [id \in ExtractorIds |-> LastRegistered(id)]]).current_position
        /\ Len(InvokedByCall) <= 1

\* C35 witness: an id was bound to an extracting closure and then to a
\* restarting one, and the call that matched the element naming it, in the
\* middle of a match, restarted.
C35_Witness ==
    /\ Len(log) = 2
    /\ log[1].id = log[2].id
    /\ log[1].kind = "ExtractDouble"
    /\ log[2].kind = "Restart"
    /\ ExtractorReturned("Restart")
    /\ call.position > 0
    /\ call.ret = OkNone
    /\ current_position = 0

\* C36: the position field of the MatchState handed to an extractor is the
\* index, within the chain, of the element that matched the item and whose
\* extractor is invoked, also when optional elements were skipped earlier
\* in the same process_item call.
C36_PositionIsElementIndex ==
    ProcessItemCalled =>
        \A i \in 1..Len(InvokedByCall) :
            InvokedByCall[i].state.position = InvokedByCall[i].element

\* C37: within one process_item call at most one extractor is invoked, and
\* only for the element the call settled on, which matched the item: none
\* for an optional element that was skipped, none when the call ends on a
\* non-optional element that does not match, none when the chain is empty.
C37_OneExtractorPerCall ==
    ProcessItemCalled =>
        /\ Len(InvokedByCall) <= 1
        /\ \A i \in 1..Len(InvokedByCall) :
              /\ InvokedByCall[i].element = Settled(patterns, call.position, CallItem)
              /\ InvokedByCall[i].element < Len(patterns)
              /\ matches(patterns[InvokedByCall[i].element + 1], CallItem)
              /\ InvokedByCall[i].id =
                    settings(patterns[InvokedByCall[i].element + 1]).extractor_id
        /\ Len(patterns) = 0 => InvokedByCall = <<>>
        /\ ( /\ Settled(patterns, call.position, CallItem) < Len(patterns)
             /\ ~matches(patterns[Settled(patterns, call.position, CallItem) + 1],
                         CallItem) )
           => InvokedByCall = <<>>

\* C37 witness: a call skipped an optional element that carries a
\* registered extractor and then matched an element whose extractor was
\* the only one invoked.
C37_Witness ==
    /\ ProcessItemCalled
    /\ call.position < Len(patterns)
    /\ settings(patterns[call.position + 1]).optional
    /\ ~matches(patterns[call.position + 1], CallItem)
    /\ HasExtractor(call.position)
    /\ Len(InvokedByCall) = 1
    /\ InvokedByCall[1].element > call.position

\* The element with max_retries, timeout_ms and context at their defaults.
Bare(e) ==
    [e EXCEPT !.settings_val =
        ElementSettings(0, @.optional, NoTimeout, NoContext, @.extractor_id)]

\* The matcher built over the same elements, optional flags and
\* extractors, with every inert setting at its default, before its first
\* item.
BareMatcher ==
    [patterns |-> [k \in 1..Len(patterns) |-> Bare(patterns[k])],
     extractors |-> extractors, current_position |-> 0, total_processed |-> 0]

\* The items fed so far.
Fed == [i \in 1..Len(log) |-> log[i].item]

\* C38: window_size, the elements' max_retries, timeout_ms and context,
\* and the matcher's context do not influence matching: whatever they are,
\* and however the window size and the context are changed between the
\* calls, the process_item calls return what they return on the matcher
\* with the same elements, optional flags and extractors and all of these
\* at their defaults, and leave the same cursor values.
C38_InertConfiguration ==
    /\ Len(Observed(BareMatcher, Fed)) = Len(log)
    /\ \A i \in 1..Len(log) :
          /\ log[i].result = Observed(BareMatcher, Fed)[i].result
          /\ log[i].after = Observed(BareMatcher, Fed)[i].after

\* C38 witness: a chain whose elements all carry max_retries, a timeout
\* and a context, on a matcher with another window size and a context set,
\* was fed two items: the first matched element 0, the second did not match
\* element 1 and the cursor went back to 0.
C38_Witness ==
    /\ Len(log) = 2
    /\ \A k \in 1..Len(patterns) : patterns[k] # Bare(patterns[k])
    /\ window_size # DefaultWindowSize
    /\ context # NoContext
    /\ log[1].result = OkNone
    /\ log[1].after = 1
    /\ log[2].result = OkNone
    /\ log[2].after = 0

====
